---- MODULE Spec2Model ----
(***************************************************************************)
(* Language Model Explorer: the simulated tokenizer and the event-driven   *)
(* explorer (tokenization page, embeddings page, pipeline navigation).     *)
(*                                                                         *)
(* A text or a word is a sequence of one-character strings, so that the    *)
(* string operations of the source (split, indexOf, substring, trim) are   *)
(* computed character by character.                                        *)
(***************************************************************************)
EXTENDS Integers, Sequences, FiniteSets, TLC

\* ------------------------------------------------------------------ bounds
\* longest text fed to the tokenizers in TokSpec
MaxLen == 5
\* most runs (analyzeTokenization / exploreEmbeddings) pending at once by the
\* doing of the user or of the typing timer
MaxRuns == 2

\* ------------------------------------------------------- string primitives
\* the characters texts are drawn from: whitespace, a lower-case and an
\* upper-case letter, the hyphen
Alphabet == {" ", "a", "A", "-"}

\* the characters matched by the regular expression \s
Whitespace == {" "}

\* String.prototype.trim
RECURSIVE trim(_)
trim(s) ==
  IF s = <<>> THEN <<>>
  ELSE IF Head(s) \in Whitespace THEN trim(Tail(s))
  ELSE IF s[Len(s)] \in Whitespace THEN trim(SubSeq(s, 1, Len(s) - 1))
  ELSE s

\* the guard `!inputText || !inputText.trim()`
isBlank(s) == s = <<>> \/ trim(s) = <<>>

\* String.prototype.substring(a, b): 0-based, end exclusive, clamped
substring(s, a, b) ==
  LET lo == IF a < 0 THEN 0 ELSE IF a > Len(s) THEN Len(s) ELSE a
      hi == IF b < 0 THEN 0 ELSE IF b > Len(s) THEN Len(s) ELSE b
  IN  IF lo <= hi THEN SubSeq(s, lo + 1, hi) ELSE SubSeq(s, hi + 1, lo)

startsWith(s, p) == Len(p) <= Len(s) /\ SubSeq(s, 1, Len(p)) = p

endsWith(s, p) == Len(p) <= Len(s) /\ SubSeq(s, Len(s) - Len(p) + 1, Len(s)) = p

\* String.prototype.indexOf: 0-based index of the first occurrence, -1 if none
indexOf(s, w) ==
  LET hits == {i \in 0..Len(s) : i + Len(w) <= Len(s) /\ SubSeq(s, i + 1, i + Len(w)) = w}
  IN  IF hits = {} THEN -1 ELSE CHOOSE i \in hits : \A j \in hits : i <= j

\* String.prototype.split(sep) for a one-character separator set, where a
\* run of separators counts once when greedy (the regular expression \s+)
\* and every separator counts when not (the literal '-')
RECURSIVE splitFrom(_, _, _, _, _, _)
splitFrom(s, i, seps, greedy, cur, acc) ==
  IF i > Len(s) THEN Append(acc, cur)
  ELSE IF s[i] \in seps
       THEN IF greedy /\ i > 1 /\ s[i - 1] \in seps
            THEN splitFrom(s, i + 1, seps, greedy, cur, acc)
            ELSE splitFrom(s, i + 1, seps, greedy, <<>>, Append(acc, cur))
       ELSE splitFrom(s, i + 1, seps, greedy, Append(cur, s[i]), acc)

\* text.split(/\s+/)
splitWhitespace(s) == splitFrom(s, 1, Whitespace, TRUE, <<>>, <<>>)

\* word.split('-')
splitHyphen(s) == splitFrom(s, 1, {"-"}, FALSE, <<>>, <<>>)

\* word.includes('-')
includes(s, c) == \E i \in 1..Len(s) : s[i] = c

\* Math.ceil(n / d) for n >= 0, d > 0
ceilDiv(n, d) == (n + d - 1) \div d


\* ------------------------------------------------------------- tokenizers
\* the affix lists of splitIntoGPTSubwords
gptPrefixes ==
  << <<"u","n">>, <<"r","e">>, <<"i","n">>, <<"i","m">>, <<"d","i","s">>,
     <<"e","n">>, <<"e","m">> >>

gptSuffixes ==
  << <<"i","n","g">>, <<"e","d">>, <<"e","r">>, <<"e","s","t">>, <<"l","y">>,
     <<"f","u","l">>, <<"l","e","s","s">>, <<"n","e","s","s">> >>

\* the affix lists of splitIntoBERTSubwords and of TokenizationService.splitWord
bertPrefixes ==
  gptPrefixes \o << <<"p","r","e">>, <<"p","r","o">>, <<"s","u","b">>,
                    <<"s","u","p","e","r">> >>

bertSuffixes ==
  gptSuffixes \o << <<"m","e","n","t">>, <<"t","i","o","n">>, <<"s","i","o","n">>,
                    <<"a","b","l","e">>, <<"i","b","l","e">> >>

\* for (const prefix of prefixes) if (startsWith && length > prefix.length + 2)
\* : the index of the first prefix that applies, 0 if none
firstPrefix(word, prefixes) ==
  LET ok == {k \in 1..Len(prefixes) :
               startsWith(word, prefixes[k]) /\ Len(word) > Len(prefixes[k]) + 2}
  IN  IF ok = {} THEN 0 ELSE CHOOSE k \in ok : \A j \in ok : k <= j

firstSuffix(word, suffixes) ==
  LET ok == {k \in 1..Len(suffixes) :
               endsWith(word, suffixes[k]) /\ Len(word) > Len(suffixes[k]) + 2}
  IN  IF ok = {} THEN 0 ELSE CHOOSE k \in ok : \A j \in ok : k <= j

\* a binary split at Math.floor(word.length / 2)
splitDefaultAtFloor(word) ==
  LET mid == Len(word) \div 2
  IN  << substring(word, 0, mid), substring(word, mid, Len(word)) >>

\* the binary split at Math.ceil(word.length / 2)
splitDefault(word) ==
  LET mid == ceilDiv(Len(word), 2)
  IN  << substring(word, 0, mid), substring(word, mid, Len(word)) >>

\* the three-way split at Math.ceil(word.length / 3)
splitThirds(word) ==
  LET third == ceilDiv(Len(word), 3)
  IN  << substring(word, 0, third), substring(word, third, third * 2),
         substring(word, third * 2, Len(word)) >>

\* the prefix and suffix rules shared by the three splitters; <<>> if neither
\* applies
splitAffix(word, prefixes, suffixes) ==
  LET p == firstPrefix(word, prefixes)
      s == firstSuffix(word, suffixes)
  IN  IF p # 0
      THEN << prefixes[p], substring(word, Len(prefixes[p]), Len(word)) >>
      ELSE IF s # 0
      THEN << substring(word, 0, Len(word) - Len(suffixes[s])), suffixes[s] >>
      ELSE <<>>

splitIntoGPTSubwords(word) ==
  IF Len(word) <= 3 THEN <<word>>
  ELSE IF includes(word, "-") THEN splitHyphen(word)
  ELSE IF splitAffix(word, gptPrefixes, gptSuffixes) # <<>>
       THEN splitAffix(word, gptPrefixes, gptSuffixes)
  ELSE splitDefault(word)

splitIntoBERTSubwords(word) ==
  IF Len(word) <= 3 THEN <<word>>
  ELSE IF includes(word, "-") THEN splitHyphen(word)
  ELSE IF splitAffix(word, bertPrefixes, bertSuffixes) # <<>>
       THEN splitAffix(word, bertPrefixes, bertSuffixes)
  ELSE IF Len(word) > 6 THEN splitThirds(word)
  ELSE splitDefault(word)

\* TokenizationService.splitGPT
splitGPT(word) == IF Len(word) <= 3 THEN <<word>> ELSE splitDefault(word)

\* TokenizationService.splitBERT
splitBERT(word) ==
  IF Len(word) <= 3 THEN <<word>>
  ELSE IF Len(word) > 6 THEN splitThirds(word)
  ELSE splitDefault(word)

\* TokenizationService.splitWord(word, strategy)
splitWord(word, strategy) ==
  IF Len(word) <= 3 THEN <<word>>
  ELSE IF includes(word, "-") THEN splitHyphen(word)
  ELSE IF splitAffix(word, bertPrefixes, bertSuffixes) # <<>>
       THEN splitAffix(word, bertPrefixes, bertSuffixes)
  ELSE IF strategy = "gpt" THEN splitGPT(word)
  ELSE IF strategy = "bert" THEN splitBERT(word)
  ELSE splitDefault(word)

\* Math.random() in hundredths: the values on and around the two thresholds
Randoms == {60, 65, 70, 75}

\* `Math.random() > 0.7`, `> 0.6`, and the service's default 0.5, in hundredths
GptThreshold == 70
BertThreshold == 60
DefaultThreshold == 50

\* an optional parentWord: <<w>> when set, <<>> when the field is absent
NoParent == <<>>

createToken(id, text, start, end, type, length, subword, parentWord) ==
  [id |-> id, text |-> text, start |-> start, end |-> end, type |-> type,
   length |-> length, subword |-> subword, parentWord |-> parentWord]

\* the loop state of a tokenizer: the tokens pushed so far, the tokenId
\* counter and the Math.random() results still to be drawn
loopStart(draws) == [tokens |-> <<>>, tokenId |-> 0, draws |-> draws]

\* a push that uses tokenId without incrementing it
pushKeepsTokenId(st, text, start, end, type, length, subword, parentWord) ==
  [st EXCEPT !.tokens = Append(@, createToken(st.tokenId, text, start, end, type,
                                              length, subword, parentWord))]

push(st, text, start, end, type, length, subword, parentWord) ==
  [st EXCEPT !.tokens = Append(@, createToken(st.tokenId, text, start, end, type,
                                              length, subword, parentWord)),
             !.tokenId = @ + 1]

\* one call of Math.random()
drawn(st) == [st EXCEPT !.draws = Tail(@)]

\* the push of an unsplit word
pushWord(st, text, word, type) ==
  push(st, word, indexOf(text, word), indexOf(text, word) + Len(word), type,
       Len(word), FALSE, NoParent)

\* subwords.forEach((subword, index) => tokens.push({...})), where marked says
\* whether pieces after the first get the '##' prefix and the +2 length
\* subwords.forEach without the +2 of the '##' prefix in length
RECURSIVE pushSubwordsOmitsMarkerLength(_, _, _, _, _, _)
pushSubwordsOmitsMarkerLength(st, text, word, subwords, index, marked) ==
  IF index >= Len(subwords) THEN st
  ELSE LET subword == subwords[index + 1]
           cont == marked /\ index > 0
           start == indexOf(text, word) + (index * 2)
       IN  pushSubwordsOmitsMarkerLength(
             push(st, IF cont THEN <<"#", "#">> \o subword ELSE subword,
                  start, start + Len(subword), "subword", Len(subword), TRUE, <<word>>),
             text, word, subwords, index + 1, marked)

RECURSIVE pushSubwords(_, _, _, _, _, _)
pushSubwords(st, text, word, subwords, index, marked) ==
  IF index >= Len(subwords) THEN st
  ELSE LET subword == subwords[index + 1]
           cont == marked /\ index > 0
           start == indexOf(text, word) + (index * 2)
       IN  pushSubwords(
             push(st, IF cont THEN <<"#", "#">> \o subword ELSE subword,
                  start, start + Len(subword), "subword",
                  Len(subword) + (IF cont THEN 2 ELSE 0), TRUE, <<word>>),
             text, word, subwords, index + 1, marked)

\* the body of words.forEach in simulateGPTTokenization
gptWord(st, text, word) ==
  IF Len(word) <= 2 THEN pushWord(st, text, word, "word")
  ELSE IF Len(word) <= 4
       THEN IF Head(st.draws) > GptThreshold
            THEN pushSubwords(drawn(st), text, word, splitIntoGPTSubwords(word), 0, FALSE)
            ELSE pushWord(drawn(st), text, word, "word")
  ELSE pushSubwords(st, text, word, splitIntoGPTSubwords(word), 0, FALSE)

\* simulateBERTTokenization splitting a medium word on `Math.random() >= 0.6`
bertWordSplitsOnThreshold(st, text, word) ==
  IF Len(word) <= 3 THEN pushWord(st, text, word, "word")
  ELSE IF Len(word) <= 5
       THEN IF Head(st.draws) >= BertThreshold
            THEN pushSubwords(drawn(st), text, word, splitIntoBERTSubwords(word), 0, TRUE)
            ELSE pushWord(drawn(st), text, word, "word")
  ELSE pushSubwords(st, text, word, splitIntoBERTSubwords(word), 0, TRUE)

\* the body of words.forEach in simulateBERTTokenization
bertWord(st, text, word) ==
  IF Len(word) <= 3 THEN pushWord(st, text, word, "word")
  ELSE IF Len(word) <= 5
       THEN IF Head(st.draws) > BertThreshold
            THEN pushSubwords(drawn(st), text, word, splitIntoBERTSubwords(word), 0, TRUE)
            ELSE pushWord(drawn(st), text, word, "word")
  ELSE pushSubwords(st, text, word, splitIntoBERTSubwords(word), 0, TRUE)

\* word.match(/^[A-Z]/)
Uppercase == {"A", "I"}
caseType(word) == IF word # <<>> /\ word[1] \in Uppercase THEN "capitalized" ELSE "lowercase"

\* TokenizationService.shouldSplitWord: the decision and the loop state after
\* the draw it may have made
thresholdOf(modelType) ==
  IF modelType = "gpt" THEN GptThreshold
  ELSE IF modelType = "bert" THEN BertThreshold
  ELSE DefaultThreshold

shouldSplitWord(st, word, modelType) ==
  IF Len(word) <= 2 THEN [split |-> FALSE, st |-> st]
  ELSE IF Len(word) <= 4
       THEN [split |-> Head(st.draws) > thresholdOf(modelType), st |-> drawn(st)]
  ELSE [split |-> TRUE, st |-> st]

\* the body of words.forEach in TokenizationService.simulateTokenization
serviceWord(st, text, word, modelType) ==
  LET d == shouldSplitWord(st, word, modelType)
  IN  IF d.split
      THEN pushSubwords(d.st, text, word, splitWord(word, modelType), 0, modelType = "bert")
      ELSE pushWord(d.st, text, word, caseType(word))

\* words.forEach(...) for the three tokenizers
RECURSIVE forEachWord(_, _, _, _, _)
forEachWord(st, text, words, i, kind) ==
  IF i > Len(words) THEN st
  ELSE forEachWord(
         IF kind = "explorer-gpt" THEN gptWord(st, text, words[i])
         ELSE IF kind = "explorer-bert" THEN bertWord(st, text, words[i])
         ELSE IF kind = "service-gpt" THEN serviceWord(st, text, words[i], "gpt")
         ELSE IF kind = "service-bert" THEN serviceWord(st, text, words[i], "bert")
         ELSE serviceWord(st, text, words[i], "unknown"),
         text, words, i + 1, kind)

clsToken(st) == push(st, <<"[", "C", "L", "S", "]">>, 0, 0, "special", 5, FALSE, NoParent)

\* a [SEP] placed on the last character of the text
sepTokenOnLastCharacter(st, text) ==
  push(st, <<"[", "S", "E", "P", "]">>, Len(text) - 1, Len(text), "special", 5, FALSE,
       NoParent)

sepToken(st, text) ==
  push(st, <<"[", "S", "E", "P", "]">>, Len(text), Len(text), "special", 5, FALSE, NoParent)

simulateGPTTokenization(text, draws) ==
  forEachWord(loopStart(draws), text, splitWhitespace(text), 1, "explorer-gpt").tokens

simulateBERTTokenization(text, draws) ==
  sepToken(forEachWord(clsToken(loopStart(draws)), text, splitWhitespace(text), 1,
                       "explorer-bert"), text).tokens

simulateRoBERTaTokenization(text, draws) == simulateBERTTokenization(text, draws)

\* the six model ids of setupModelSelector
Models ==
  {"gpt2", "gpt2-medium", "gpt2-large", "bert-base-uncased",
   "distilbert-base-uncased", "roberta-base"}

\* modelId.includes('gpt') and modelId.includes('bert') on the six ids
includesGpt(modelId) == modelId \in {"gpt2", "gpt2-medium", "gpt2-large"}

includesBert(modelId) ==
  modelId \in {"bert-base-uncased", "distilbert-base-uncased", "roberta-base"}

\* simulateTokenization sending roberta to the tokenizer of the gpt family
simulateTokenizationRobertaAsGpt(text, modelId, draws) ==
  IF includesGpt(modelId) \/ modelId = "roberta-base"
  THEN simulateGPTTokenization(text, draws)
  ELSE simulateBERTTokenization(text, draws)

\* LanguageModelExplorer.simulateTokenization(text, modelId)
simulateTokenization(text, modelId, draws) ==
  IF includesGpt(modelId) THEN simulateGPTTokenization(text, draws)
  ELSE IF includesBert(modelId) THEN simulateBERTTokenization(text, draws)
  ELSE simulateRoBERTaTokenization(text, draws)

\* TokenizationService.simulateTokenization(text, modelType)
serviceSimulateTokenization(text, modelType, draws) ==
  LET kind == IF modelType = "gpt" THEN "service-gpt"
              ELSE IF modelType = "bert" THEN "service-bert" ELSE "service-unknown"
      st0 == IF modelType = "bert" THEN clsToken(loopStart(draws)) ELSE loopStart(draws)
      st1 == forEachWord(st0, text, splitWhitespace(text), 1, kind)
  IN  (IF modelType = "bert" THEN sepToken(st1, text) ELSE st1).tokens

\* words.map((word, index) => ({...})) of mockTokenize
mockTokens(text) ==
  LET words == splitWhitespace(text)
  IN  [index \in 1..Len(words) |->
         createToken(index - 1, words[index], indexOf(text, words[index]),
                     indexOf(text, words[index]) + Len(words[index]),
                     caseType(words[index]), Len(words[index]), FALSE, NoParent)]


\* ------------------------------------------------------------------ state
VARIABLES
  \* LanguageModelExplorer fields
  currentModel, tokenizers, tokenizationResult, embeddingsData, currentStep,
  autoPlayInterval,
  \* the DOM the explorer reads and writes
  inputText, embeddingsInputText, analyzeBtnDisabled, exploreBtnDisabled,
  errorMessageShown, embeddingsErrorShown, pipelineShown, prevBtnDisabled,
  nextBtnDisabled,
  \* the event loop: how many loadTokenizer calls of initializeTokenizers have
  \* returned, the runs between their start and their completion, oldest
  \* first, and the numbers of armed typing timers and auto-play intervals
  loaded, runs, typingTimers, autoPlayTimers,
  \* one call of a tokenizer: its text, its Math.random() results, the
  \* function called and the tokens it returned
  tokText, tokDraws, tokCall, tokTokens,
  \* one call of a splitter: its word, the function called and the pieces it
  \* returned
  splitArg, splitCall, subwords,
  \* one call of an embeddings function: its arguments, the function called
  \* and what it returned
  embArgs, embCall, embResult,
  \* the tokenization parameters: the values of #addSpecialTokens, #padding,
  \* #truncation and #maxLength, the state of TokenizationControls. No handler
  \* of the explorer reads them, and the explorer specifications leave them
  \* at their defaults
  controls,
  \* the token visualizer of script.js: this.selectedToken, what
  \* #tokenVisualizer holds, whether the last displayTokenVisualizer() threw,
  \* and the last event dispatched on a token element
  selectedToken, tokenVisualizer, renderThrew, tokenEvent,
  \* for each pending run of runs, the text of #input-text and the
  \* currentModel of the moment its handler called analyzeTokenization()
  requests

explorerVars ==
  <<currentModel, tokenizers, tokenizationResult, embeddingsData, currentStep,
    autoPlayInterval, inputText, embeddingsInputText, analyzeBtnDisabled,
    exploreBtnDisabled, errorMessageShown, embeddingsErrorShown, pipelineShown,
    prevBtnDisabled, nextBtnDisabled, loaded, runs, typingTimers, autoPlayTimers>>

splitVars == <<splitArg, splitCall, subwords>>

embVars == <<embArgs, embCall, embResult>>

visualizerVars == <<selectedToken, tokenVisualizer, renderThrew, tokenEvent>>

tokVars ==
  <<tokText, tokDraws, tokCall, tokTokens, splitVars, embVars, controls,
    visualizerVars, requests>>

vars == <<explorerVars, tokVars>>

\* the value of a field that holds null
Null == [isNull |-> TRUE]

\* the models initializeTokenizers loads, in its order
LoadOrder == <<"gpt2", "bert-base-uncased", "roberta-base">>

\* what #input-text holds in the explorer specifications: the empty text, a
\* whitespace-only text and two non-blank texts
UiTexts == { <<>>, <<" ">>, <<"a">>, <<"A">> }

\* what #embeddings-input-text holds
EmbeddingsTexts == { <<>>, <<" ">>, <<"a">> }

\* new LanguageModelExplorer(): constructor, initialize, setupEmbeddings; the
\* first fetch of initializeTokenizers is in flight. #prevStep and #nextStep
\* start as buttons do, enabled; goToStep sets them before they are first
\* operated
ExplorerInit ==
  /\ currentModel = "gpt2"
  /\ tokenizers = {}
  /\ tokenizationResult = Null
  /\ embeddingsData = Null
  /\ currentStep = 0
  /\ autoPlayInterval = FALSE
  /\ inputText \in UiTexts
  /\ embeddingsInputText \in EmbeddingsTexts
  /\ analyzeBtnDisabled = FALSE
  /\ exploreBtnDisabled = FALSE
  /\ errorMessageShown = FALSE
  /\ embeddingsErrorShown = FALSE
  /\ pipelineShown = FALSE
  /\ prevBtnDisabled = FALSE
  /\ nextBtnDisabled = FALSE
  /\ loaded = 0
  /\ runs = <<>>
  /\ typingTimers = 0
  /\ autoPlayTimers = 0

\* ------------------------------------------------ the tokenizers, called
\* all texts of at most n characters
RECURSIVE TextsUpTo(_)
TextsUpTo(n) ==
  IF n = 0 THEN { <<>> }
  ELSE LET shorter == TextsUpTo(n - 1)
       IN  shorter \cup {Append(t, c) : t \in {u \in shorter : Len(u) = n - 1}, c \in Alphabet}

\* a word that draws has at least three characters, and words are separated
\* by whitespace: a text of n characters makes at most this many draws
maxDraws(n) == (n + 1) \div 4

MaxDraws == maxDraws(MaxLen)

\* the Math.random() results a tokenizer call on text may see
drawsFor(text) == [1..maxDraws(Len(text)) -> Randoms]

NoCall == [fn |-> "none", arg |-> "none"]

\* the text "I love you", and the most Math.random() results a tokenizer
\* call on it sees: one for "love" and one for "you"
ILoveYou == <<"I", " ", "l", "o", "v", "e", " ", "y", "o", "u">>

ILoveYouDraws == 2

\* the text "hello"
Hello == <<"h", "e", "l", "l", "o">>

\* no tokenizer call is observed on its own
TokenizerIdle ==
  /\ tokText = <<"a">>
  /\ tokDraws = [k \in 1..MaxDraws |-> GptThreshold]
  /\ tokCall = NoCall
  /\ tokTokens = <<>>

\* useState(true), useState(false), useState(false), useState(512)
DefaultControls ==
  [addSpecialTokens |-> TRUE, padding |-> FALSE, truncation |-> FALSE, maxLength |-> 512]

\* the parameters are not operated
ControlsIdle == controls = DefaultControls

\* #tokenVisualizer before the first displayTokenVisualizer()
EmptyVisualizer == [elements |-> 0, details |-> Null]

NoEvent == [type |-> "none", index |-> 0]

\* this.selectedToken = null, and no token element to operate
VisualizerIdle ==
  /\ selectedToken = Null
  /\ tokenVisualizer = EmptyVisualizer
  /\ renderThrew = FALSE
  /\ tokenEvent = NoEvent

\* no request of a run is recorded
RequestsIdle == requests = <<>>

\* no embeddings call is observed on its own
EmbIdle ==
  /\ embArgs = [of |-> "none"]
  /\ embCall = NoCall
  /\ embResult = <<>>

\* no splitter call is observed on its own
SplitIdle ==
  /\ splitArg = <<"a">>
  /\ splitCall = NoCall
  /\ subwords = <<>>

\* the callers pass on non-blank text only (analyzeTokenization and
\* exploreEmbeddings return early otherwise)
TokInit ==
  /\ \/ /\ tokText \in {t \in TextsUpTo(MaxLen) : ~isBlank(t)}
        /\ tokDraws \in [1..MaxDraws -> Randoms]
     \/ /\ tokText = ILoveYou
        /\ tokDraws \in [1..ILoveYouDraws -> Randoms]
     \/ /\ tokText = Hello
        /\ tokDraws \in drawsFor(Hello)
  /\ tokCall = NoCall
  /\ tokTokens = <<>>

\* tokenizers[modelId].tokenize(text) for a model loadTokenizer registered
CallTokenizer(modelId) ==
  /\ tokCall = NoCall
  /\ tokCall' = [fn |-> "simulateTokenization", arg |-> modelId]
  /\ tokTokens' = simulateTokenization(tokText, modelId, tokDraws)
  /\ UNCHANGED <<tokText, tokDraws, explorerVars, splitVars, embVars, controls,
                 visualizerVars, requests>>

\* TokenizationService.simulateTokenization(text, modelType)
CallService(modelType) ==
  /\ tokCall = NoCall
  /\ tokCall' = [fn |-> "TokenizationService.simulateTokenization", arg |-> modelType]
  /\ tokTokens' = serviceSimulateTokenization(tokText, modelType, tokDraws)
  /\ UNCHANGED <<tokText, tokDraws, explorerVars, splitVars, embVars, controls,
                 visualizerVars, requests>>

\* mockTokenize(text), the fallback for a model without a tokenizer
CallMock ==
  /\ tokCall = NoCall
  /\ tokCall' = [fn |-> "mockTokenize", arg |-> "none"]
  /\ tokTokens' = mockTokens(tokText)
  /\ UNCHANGED <<tokText, tokDraws, explorerVars, splitVars, embVars, controls,
                 visualizerVars, requests>>

TokNext ==
  \/ \E modelId \in {LoadOrder[k] : k \in 1..Len(LoadOrder)} : CallTokenizer(modelId)
  \/ \E modelType \in {"gpt", "bert", "unknown"} : CallService(modelType)
  \/ CallMock

\* the explorer at rest, in the specifications of single calls
ExplorerIdle == ExplorerInit /\ inputText = <<>> /\ embeddingsInputText = <<>>

TokSpecInit ==
  TokInit /\ SplitIdle /\ EmbIdle /\ ControlsIdle /\ VisualizerIdle /\ RequestsIdle /\ ExplorerIdle

TokSpec == TokSpecInit /\ [][TokNext]_vars

\* --------------------------------------------------- the splitters, called
\* the longest word of hyphens and letters a splitter is called with
MaxWordLen == 7

\* the stems put after a prefix and before a suffix: too short for the affix
\* rule (length <= 2) and long enough
Stems == { <<"a">>, <<"a", "a">>, <<"a", "a", "a">> }

\* the words of one letter and the hyphen
RECURSIVE HyphenWordsUpTo(_)
HyphenWordsUpTo(n) ==
  IF n = 0 THEN { <<>> }
  ELSE LET shorter == HyphenWordsUpTo(n - 1)
       IN  shorter \cup {Append(t, c) : t \in {u \in shorter : Len(u) = n - 1},
                                        c \in {"a", "-"}}

\* the words that begin with a prefix, end with a suffix, or both, of the
\* longer (bert) lists, which hold the gpt lists
AffixWords ==
  LET P == {bertPrefixes[k] : k \in 1..Len(bertPrefixes)}
      S == {bertSuffixes[k] : k \in 1..Len(bertSuffixes)}
  IN  {p \o stem : p \in P, stem \in Stems}
        \cup {stem \o x : stem \in Stems, x \in S}
        \cup {p \o stem \o x : p \in P, stem \in Stems, x \in S}

\* the words the splitters are called with: text.split(/\s+/) never yields a
\* word with whitespace, and the tokenizers split no word of length <= 2
SplitWords == (HyphenWordsUpTo(MaxWordLen) \ { <<>> }) \cup AffixWords

SplitInit ==
  /\ splitArg \in SplitWords
  /\ splitCall = NoCall
  /\ subwords = <<>>

\* this.splitIntoGPTSubwords(word)
CallSplitIntoGPTSubwords ==
  /\ splitCall = NoCall
  /\ splitCall' = [fn |-> "splitIntoGPTSubwords", arg |-> "none"]
  /\ subwords' = splitIntoGPTSubwords(splitArg)
  /\ UNCHANGED <<splitArg, tokText, tokDraws, tokCall, tokTokens, explorerVars, embVars,
                 controls, visualizerVars, requests>>

\* this.splitIntoBERTSubwords(word)
CallSplitIntoBERTSubwords ==
  /\ splitCall = NoCall
  /\ splitCall' = [fn |-> "splitIntoBERTSubwords", arg |-> "none"]
  /\ subwords' = splitIntoBERTSubwords(splitArg)
  /\ UNCHANGED <<splitArg, tokText, tokDraws, tokCall, tokTokens, explorerVars, embVars,
                 controls, visualizerVars, requests>>

\* TokenizationService.splitWord(word, strategy)
CallSplitWord(strategy) ==
  /\ splitCall = NoCall
  /\ splitCall' = [fn |-> "TokenizationService.splitWord", arg |-> strategy]
  /\ subwords' = splitWord(splitArg, strategy)
  /\ UNCHANGED <<splitArg, tokText, tokDraws, tokCall, tokTokens, explorerVars, embVars,
                 controls, visualizerVars, requests>>

SplitNext ==
  \/ CallSplitIntoGPTSubwords
  \/ CallSplitIntoBERTSubwords
  \/ \E strategy \in {"gpt", "bert", "unknown"} : CallSplitWord(strategy)

SplitSpecInit ==
  SplitInit /\ TokenizerIdle /\ EmbIdle /\ ControlsIdle /\ VisualizerIdle /\ RequestsIdle /\ ExplorerIdle

SplitSpec == SplitSpecInit /\ [][SplitNext]_vars

\* ------------------------------------------------------------- embeddings
\* A number of the embeddings is the sum of a constant, in hundredths, and of
\* the sines and cosines in t, each <<"sin" or "cos", pos, i>> for
\* Math.sin or Math.cos of pos / Math.pow(10000, i / embeddingDim).
num(c) == [c |-> c, t |-> <<>>]

\* val + posEncoding[i]
add(x, y) == [c |-> x.c + y.c, t |-> x.t \o y.t]

\* the sum with undefined
NaN == [c |-> 0, t |-> << <<"NaN", 0, 0>> >>]

\* Math.sin(pos / Math.pow(10000, i / embeddingDim)): Math.sin(0) is 0
sin(pos, i) == IF pos = 0 THEN num(0) ELSE [c |-> 0, t |-> << <<"sin", pos, i>> >>]

\* Math.cos(pos / Math.pow(10000, i / embeddingDim)): Math.cos(0) is 1
cos(pos, i) == IF pos = 0 THEN num(100) ELSE [c |-> 0, t |-> << <<"cos", pos, i>> >>]

embeddingDim == 768

\* EmbeddingsService.getEmbeddingDimension(modelType)
getEmbeddingDimension(modelType) == 768

\* new Array(embeddingDim).fill(0)
zeroVector(dim) == [i \in 1..dim |-> num(0)]

\* Math.sqrt(vector.reduce((sum, val) => sum + val * val, 0)), kept as the
\* expression it is
calculateMagnitude(vector) == [sqrtOfSumOfSquares |-> vector]

\* what Math.random() returns, in hundredths, and the results of its calls in
\* their order: the calls with an even number see one value, those with an
\* odd number another
RandomUnits == {0, 99}

RandomStreams == [{0, 1} -> RandomUnits]

randomAt(stream, k) == stream[k % 2]

\* the vector of the token at index (from 0): its i-th number (from 0) is
\* (Math.random() - 0.5) * 2 of the call numbered index * dim + i
randomEmbedding(stream, index, dim) ==
  [i \in 1..dim |-> num((randomAt(stream, index * dim + (i - 1)) - 50) * 2)]

generateDictionaryEmbeddings(tokens, stream) ==
  [p \in 1..Len(tokens) |->
     LET embedding == randomEmbedding(stream, p - 1, embeddingDim)
     IN  [token |-> tokens[p].text, embedding |-> embedding,
          magnitude |-> calculateMagnitude(embedding)]]

\* the vector of a position: sines at the even indices, cosines at the odd
posEncodingOf(pos, dim) ==
  [k \in 1..dim |->
     LET i == k - 1
     IN  IF i % 2 = 0 THEN sin(pos, i) ELSE cos(pos, i - 1)]

generatePositionalEncoding(seqLength) ==
  [p \in 1..seqLength |->
     LET posEncoding == posEncodingOf(p - 1, embeddingDim)
     IN  [position |-> p - 1, encoding |-> posEncoding,
          magnitude |-> calculateMagnitude(posEncoding)]]

\* dictEmbedding.map((val, i) => val + posEncoding[i])
addVectors(dictEmbedding, posEncoding) ==
  [i \in 1..Len(dictEmbedding) |->
     IF i <= Len(posEncoding) THEN add(dictEmbedding[i], posEncoding[i]) ELSE NaN]

\* the loop of combineEmbeddings stopping at the end of the shorter input
combineWithStopsAtMissing(dim, seqLength, dictionaryEmbeddings, positionalEncoding) ==
  LET shortest == IF Len(dictionaryEmbeddings) < Len(positionalEncoding)
                  THEN Len(dictionaryEmbeddings) ELSE Len(positionalEncoding)
  IN  [p \in 1..(IF seqLength < shortest THEN seqLength ELSE shortest) |->
         LET combinedEmbedding == addVectors(dictionaryEmbeddings[p].embedding,
                                             positionalEncoding[p].encoding)
         IN  [position |-> p - 1, embedding |-> combinedEmbedding,
              magnitude |-> calculateMagnitude(combinedEmbedding)]]

\* the loop of combineEmbeddings for an embedding dimension
combineWith(dim, seqLength, dictionaryEmbeddings, positionalEncoding) ==
  [p \in 1..seqLength |->
     LET dictEmbedding == IF p <= Len(dictionaryEmbeddings)
                          THEN dictionaryEmbeddings[p].embedding ELSE zeroVector(dim)
         posEncoding == IF p <= Len(positionalEncoding)
                        THEN positionalEncoding[p].encoding ELSE zeroVector(dim)
         combinedEmbedding == addVectors(dictEmbedding, posEncoding)
     IN  [position |-> p - 1, embedding |-> combinedEmbedding,
          magnitude |-> calculateMagnitude(combinedEmbedding)]]

combineEmbeddings(seqLength, dictionaryEmbeddings, positionalEncoding) ==
  combineWith(embeddingDim, seqLength, dictionaryEmbeddings, positionalEncoding)

\* a positional encoding whose angles are scaled by the sequence length
generatePositionalEncodingScaled(seqLength, modelType) ==
  [p \in 1..seqLength |->
     LET posEncoding == posEncodingOf((p - 1) * seqLength, getEmbeddingDimension(modelType))
     IN  [position |-> p - 1, encoding |-> posEncoding,
          magnitude |-> calculateMagnitude(posEncoding)]]

\* EmbeddingsService.generatePositionalEncoding(seqLength, modelType)
serviceGeneratePositionalEncoding(seqLength, modelType) ==
  [p \in 1..seqLength |->
     LET posEncoding == posEncodingOf(p - 1, getEmbeddingDimension(modelType))
     IN  [position |-> p - 1, encoding |-> posEncoding,
          magnitude |-> calculateMagnitude(posEncoding)]]

\* EmbeddingsService.combineEmbeddings(seqLength, dictionaryEmbeddings,
\* positionalEncoding, modelType)
serviceCombineEmbeddings(seqLength, dictionaryEmbeddings, positionalEncoding, modelType) ==
  combineWith(getEmbeddingDimension(modelType), seqLength, dictionaryEmbeddings,
              positionalEncoding)

\* the embeddingsData that generateEmbeddings builds from the tokens
embeddingsDataOf(tokens, stream) ==
  LET dictionaryEmbeddings == generateDictionaryEmbeddings(tokens, stream)
      positionalEncoding == generatePositionalEncoding(Len(tokens))
  IN  [tokens |-> tokens,
       dictionaryEmbeddings |-> dictionaryEmbeddings,
       positionalEncoding |-> positionalEncoding,
       finalEmbeddings |-> combineEmbeddings(Len(tokens), dictionaryEmbeddings,
                                             positionalEncoding)]

\* the longest sequence the embeddings functions are called with
MaxSeqLength == 3

\* the first count tokens of "I love you" tokenized by simulateBERTTokenization
firstTokens(count) == SubSeq(simulateBERTTokenization(ILoveYou, <<BertThreshold>>), 1, count)

\* no Math.random() is called
NoStream == [k \in {0, 1} |-> 0]

\* The arguments of one call. Of generatePositionalEncoding: a sequence
\* length. Of combineEmbeddings: a sequence length, the dictionary embeddings
\* of the first dictLength tokens and the positional encoding of posLength
\* positions, each shorter than the sequence length, as long, or longer. Of
\* generateEmbeddings: its tokens, at least one.
PositionalArgs ==
  {[of |-> "generatePositionalEncoding", seqLength |-> seqLength, dictLength |-> 0,
    posLength |-> 0, stream |-> NoStream] : seqLength \in 0..MaxSeqLength}

CombineArgs ==
  {[of |-> "combineEmbeddings", seqLength |-> seqLength, dictLength |-> dictLength,
    posLength |-> posLength, stream |-> stream] :
     seqLength \in 0..MaxSeqLength, dictLength \in 0..MaxSeqLength,
     posLength \in 0..MaxSeqLength, stream \in RandomStreams}

GenerateArgs ==
  {[of |-> "generateEmbeddings", seqLength |-> seqLength, dictLength |-> seqLength,
    posLength |-> seqLength, stream |-> stream] :
     seqLength \in 1..MaxSeqLength, stream \in RandomStreams}

EmbInit ==
  /\ embArgs \in PositionalArgs \cup CombineArgs \cup GenerateArgs
  /\ embCall = NoCall
  /\ embResult = <<>>

\* the arguments the call is made with
tokensArg == firstTokens(embArgs.dictLength)

dictionaryEmbeddingsArg == generateDictionaryEmbeddings(tokensArg, embArgs.stream)

positionalEncodingArg == generatePositionalEncoding(embArgs.posLength)

embReturns(fn, arg, result) ==
  /\ embCall = NoCall
  /\ embCall' = [fn |-> fn, arg |-> arg]
  /\ embResult' = result
  /\ UNCHANGED <<embArgs, tokText, tokDraws, tokCall, tokTokens, splitVars, explorerVars,
                 controls, visualizerVars, requests>>

\* this.generatePositionalEncoding(seqLength)
CallGeneratePositionalEncoding ==
  /\ embArgs.of = "generatePositionalEncoding"
  /\ embReturns("generatePositionalEncoding", "none",
                generatePositionalEncoding(embArgs.seqLength))

\* this.combineEmbeddings(seqLength, dictionaryEmbeddings, positionalEncoding)
CallCombineEmbeddings ==
  /\ embArgs.of = "combineEmbeddings"
  /\ embReturns("combineEmbeddings", "none",
                combineEmbeddings(embArgs.seqLength, dictionaryEmbeddingsArg,
                                  positionalEncodingArg))

\* EmbeddingsService.generatePositionalEncoding(seqLength, modelType)
CallServiceGeneratePositionalEncoding(modelType) ==
  /\ embArgs.of = "generatePositionalEncoding"
  /\ embReturns("EmbeddingsService.generatePositionalEncoding", modelType,
                serviceGeneratePositionalEncoding(embArgs.seqLength, modelType))

\* EmbeddingsService.combineEmbeddings(seqLength, dictionaryEmbeddings,
\* positionalEncoding, modelType)
CallServiceCombineEmbeddings(modelType) ==
  /\ embArgs.of = "combineEmbeddings"
  /\ embReturns("EmbeddingsService.combineEmbeddings", modelType,
                serviceCombineEmbeddings(embArgs.seqLength, dictionaryEmbeddingsArg,
                                         positionalEncodingArg, modelType))

\* the part of generateEmbeddings(text) after tokenizer.tokenize(text)
CallGenerateEmbeddings ==
  /\ embArgs.of = "generateEmbeddings"
  /\ embReturns("generateEmbeddings", "none", embeddingsDataOf(tokensArg, embArgs.stream))

EmbNext ==
  \/ CallGeneratePositionalEncoding
  \/ CallCombineEmbeddings
  \/ \E modelType \in {"gpt", "bert"} : CallServiceGeneratePositionalEncoding(modelType)
  \/ \E modelType \in {"gpt", "bert"} : CallServiceCombineEmbeddings(modelType)
  \/ CallGenerateEmbeddings

EmbSpecInit ==
  EmbInit /\ TokenizerIdle /\ SplitIdle /\ ControlsIdle /\ VisualizerIdle /\ RequestsIdle /\ ExplorerIdle

EmbSpec == EmbSpecInit /\ [][EmbNext]_vars


\* ------------------------------------------------------------ the explorer
\* setTimeout(resolve, 300) of a run, setTimeout(..., 500) of the typing
\* timer, setInterval(..., 2000) of auto-play
RunDelay == 300
TypingDelay == 500
AutoPlayDelay == 2000

\* Every run waits RunDelay, so the runs complete in the order they started:
\* runs is that order, and only its first run can complete next. The typing
\* timer and the interval of auto-play wait longer than a run and may expire
\* at any moment while they are armed.
canComplete(rs, i) == i = 1

removeAt(rs, i) == SubSeq(rs, 1, i - 1) \o SubSeq(rs, i + 1, Len(rs))

\* the runs that have started and not completed
pendingRuns(rs) == {rs[i] : i \in 1..Len(rs)}

\* the name a new run is told apart by
freeId(rs) ==
  CHOOSE n \in 1..(Len(rs) + 1) :
    /\ n \notin {e.id : e \in pendingRuns(rs)}
    /\ \A m \in 1..(n - 1) : m \in {e.id : e \in pendingRuns(rs)}

\* a handler starts a run only while fewer than MaxRuns are pending; the
\* initial run of initializeTokenizers starts in any case
mayStart(rs) == Cardinality(pendingRuns(rs)) < MaxRuns

armed(rs, kind, text) == Append(rs, [kind |-> kind, id |-> freeId(rs), text |-> text])

\* a clearTimeout that cancels nothing
clearTimeoutOfNoTimer(n) == n

\* clearTimeout(typingTimeout): the armed typing timers it leaves; the handle
\* is the one of the timer armed last
clearTimeout(n) == IF n > 0 THEN n - 1 ELSE 0

\* clearInterval(autoPlayInterval): the active intervals it leaves
clearInterval(n) == IF n > 0 THEN n - 1 ELSE 0

\* loadTokenizer(modelId): the tokenizers after the fetch ended with outcome
FetchOutcomes == {"ok", "not ok", "fetch throws", "json throws"}

\* a loadTokenizer whose catch block registers nothing
loadTokenizerWithoutFallback(tk, modelId, outcome) ==
  IF outcome = "ok" THEN tk \cup {modelId} ELSE tk

loadTokenizer(tk, modelId, outcome) ==
  IF outcome = "ok"
  THEN tk \cup {modelId}
  ELSE \* the catch block: fallback to basic simulation
       tk \cup {modelId}

\* analyzeTokenization up to its await: what it leaves in the disabled state
\* of analyzeBtn and in the runs, reading text from #input-text
\* an early return on the empty text only, without trim()
analyzeStartsUntrimmed(text) == text # <<>>

analyzeStarts(text) == ~isBlank(text)

analyzeBtnAfterStart(text, disabled) == IF analyzeStarts(text) THEN TRUE ELSE disabled

runsAfterAnalyzeStart(text, rs) ==
  IF analyzeStarts(text) THEN armed(rs, "analyze", text) ELSE rs

\* exploreEmbeddings up to its await, reading text from #embeddings-input-text
exploreStarts(text) == ~isBlank(text)

exploreBtnAfterStart(text, disabled) == IF exploreStarts(text) THEN TRUE ELSE disabled

runsAfterExploreStart(text, rs) ==
  IF exploreStarts(text) THEN armed(rs, "explore", text) ELSE rs

\* initializeTokenizers: one loadTokenizer returns; after the third, the
\* initial analyzeTokenization() call
LoadTokenizerReturns(outcome) ==
  /\ loaded < Len(LoadOrder)
  /\ loaded' = loaded + 1
  /\ tokenizers' = loadTokenizer(tokenizers, LoadOrder[loaded + 1], outcome)
  /\ IF loaded + 1 = Len(LoadOrder)
     THEN /\ analyzeBtnDisabled' = analyzeBtnAfterStart(inputText, analyzeBtnDisabled)
          /\ runs' = runsAfterAnalyzeStart(inputText, runs)
     ELSE UNCHANGED <<analyzeBtnDisabled, runs>>
  /\ UNCHANGED <<typingTimers, autoPlayTimers, currentModel, tokenizationResult,
                 embeddingsData, currentStep, prevBtnDisabled, nextBtnDisabled,
                 autoPlayInterval, inputText, embeddingsInputText,
                 exploreBtnDisabled, errorMessageShown, embeddingsErrorShown,
                 pipelineShown, tokVars>>

\* the part of every handler that is a call of analyzeTokenization()
analyzeTokenization(text) ==
  /\ analyzeStarts(text) => mayStart(runs)
  /\ analyzeBtnDisabled' = analyzeBtnAfterStart(text, analyzeBtnDisabled)
  /\ runs' = runsAfterAnalyzeStart(text, runs)

\* 'input' on #input-text
InputText(text) ==
  /\ inputText' = text
  /\ analyzeTokenization(text)
  /\ UNCHANGED <<typingTimers, autoPlayTimers, currentModel, tokenizers,
                 tokenizationResult, embeddingsData, currentStep,
                 prevBtnDisabled, nextBtnDisabled, autoPlayInterval,
                 embeddingsInputText, exploreBtnDisabled, errorMessageShown,
                 embeddingsErrorShown, pipelineShown, loaded, tokVars>>

\* 'click' on #analyzeBtn; a disabled button dispatches no click
ClickAnalyze ==
  /\ ~analyzeBtnDisabled
  /\ analyzeTokenization(inputText)
  /\ UNCHANGED <<typingTimers, autoPlayTimers, currentModel, tokenizers,
                 tokenizationResult, embeddingsData, currentStep,
                 prevBtnDisabled, nextBtnDisabled, autoPlayInterval, inputText,
                 embeddingsInputText, exploreBtnDisabled, errorMessageShown,
                 embeddingsErrorShown, pipelineShown, loaded, tokVars>>

\* 'change' on #addSpecialTokens, #padding, #truncation, 'input' on #maxLength
Parameters == {"addSpecialTokens", "padding", "truncation", "maxLength"}

ChangeParameter(param) ==
  /\ param \in Parameters
  /\ analyzeTokenization(inputText)
  /\ UNCHANGED <<typingTimers, autoPlayTimers, currentModel, tokenizers,
                 tokenizationResult, embeddingsData, currentStep,
                 prevBtnDisabled, nextBtnDisabled, autoPlayInterval, inputText,
                 embeddingsInputText, exploreBtnDisabled, errorMessageShown,
                 embeddingsErrorShown, pipelineShown, loaded, tokVars>>

\* selectModel(modelId), a click in #modelSelector
selectModel(modelId) ==
  /\ currentModel' = modelId
  /\ analyzeTokenization(inputText)
  /\ UNCHANGED <<typingTimers, autoPlayTimers, tokenizers, tokenizationResult,
                 embeddingsData, currentStep, prevBtnDisabled, nextBtnDisabled,
                 autoPlayInterval, inputText, embeddingsInputText,
                 exploreBtnDisabled, errorMessageShown, embeddingsErrorShown,
                 pipelineShown, loaded, tokVars>>

\* mockTokenize(text)
mockTokenize(text, model) ==
  [originalText |-> text, tokens |-> mockTokens(text),
   totalTokens |-> Len(mockTokens(text)), model |-> model]

\* the result analyzeTokenization stores after its await (the timestamp is
\* left out)
analyzedResult(text, model, tk, draws) ==
  IF model \in tk
  THEN LET tokens == simulateTokenization(text, model, draws)
       IN  [originalText |-> text, tokens |-> tokens, totalTokens |-> Len(tokens),
            model |-> model]
  ELSE mockTokenize(text, model)

\* an analyzeTokenization that drops the result of a run whose text is no
\* longer the text of #input-text
AnalyzeCompletesUnlessStale(i) ==
  /\ i \in 1..Len(runs) /\ runs[i].kind = "analyze" /\ canComplete(runs, i)
  /\ IF runs[i].text = inputText
     THEN \E draws \in drawsFor(runs[i].text) :
            tokenizationResult' =
              analyzedResult(runs[i].text, currentModel, tokenizers, draws)
     ELSE UNCHANGED tokenizationResult
  /\ errorMessageShown' = FALSE
  /\ analyzeBtnDisabled' = FALSE
  /\ runs' = removeAt(runs, i)
  /\ UNCHANGED <<typingTimers, autoPlayTimers, currentModel, tokenizers,
                 embeddingsData, currentStep, prevBtnDisabled, nextBtnDisabled,
                 autoPlayInterval, inputText, embeddingsInputText,
                 exploreBtnDisabled, embeddingsErrorShown, pipelineShown, loaded,
                 tokVars>>

\* analyzeTokenization after its await: the run's timer expires. Nothing in
\* the try block throws, so the catch block is never entered
AnalyzeCompletes(i) ==
  /\ i \in 1..Len(runs) /\ runs[i].kind = "analyze" /\ canComplete(runs, i)
  /\ \E draws \in drawsFor(runs[i].text) :
       tokenizationResult' =
         analyzedResult(runs[i].text, currentModel, tokenizers, draws)
  /\ errorMessageShown' = FALSE
  /\ analyzeBtnDisabled' = FALSE
  /\ runs' = removeAt(runs, i)
  /\ UNCHANGED <<typingTimers, autoPlayTimers, currentModel, tokenizers,
                 embeddingsData, currentStep, prevBtnDisabled, nextBtnDisabled,
                 autoPlayInterval, inputText, embeddingsInputText,
                 exploreBtnDisabled, embeddingsErrorShown, pipelineShown, loaded,
                 tokVars>>


\* the four stages, in order; currentStep is an index into them, from 0
Steps == <<"tokens", "dictionary", "positional", "final">>

\* steps.indexOf(stepName)
stepIndexOf(stepName) ==
  IF \E k \in 1..Len(Steps) : Steps[k] = stepName
  THEN (CHOOSE k \in 1..Len(Steps) : Steps[k] = stepName) - 1
  ELSE -1

\* what navigation reads and writes: currentStep and the disabled state of
\* #prevStep and #nextStep
navOf(step, prevDisabled, nextDisabled) ==
  [currentStep |-> step, prevBtnDisabled |-> prevDisabled,
   nextBtnDisabled |-> nextDisabled]

\* goToStep(stepName)
goToStep(nav, stepName) ==
  IF stepIndexOf(stepName) = -1
  THEN nav
  ELSE navOf(stepIndexOf(stepName), stepIndexOf(stepName) = 0,
             stepIndexOf(stepName) = Len(Steps) - 1)

previousStep(nav) ==
  IF nav.currentStep > 0 THEN goToStep(nav, Steps[(nav.currentStep - 1) + 1]) ELSE nav

\* a nextStep that starts over after the last stage
nextStepWraps(nav) ==
  IF nav.currentStep < 3
  THEN goToStep(nav, Steps[(nav.currentStep + 1) + 1])
  ELSE goToStep(nav, "tokens")

nextStep(nav) ==
  IF nav.currentStep < 3 THEN goToStep(nav, Steps[(nav.currentStep + 1) + 1]) ELSE nav

\* the callback of setInterval in toggleAutoPlay
autoPlayStep(nav) ==
  IF nav.currentStep < 3 THEN nextStep(nav) ELSE goToStep(nav, "tokens")

\* the navigation state now, and a step that leaves it as nav
navNow == navOf(currentStep, prevBtnDisabled, nextBtnDisabled)

navBecomes(nav) ==
  /\ currentStep' = nav.currentStep
  /\ prevBtnDisabled' = nav.prevBtnDisabled
  /\ nextBtnDisabled' = nav.nextBtnDisabled

\* generateEmbeddings(text): the embeddingsData it leaves. The vectors are
\* left out; each of the three lists has one vector per token
generateEmbeddings(data, text, model, tk, draws) ==
  IF model \notin tk
  THEN data
  ELSE LET tokens == simulateTokenization(text, model, draws)
       IN  [tokens |-> tokens, vectors |-> Len(tokens)]

\* exploreEmbeddings without its check of embeddingsData
exploreNeverThrows(data) == FALSE

\* `if (!this.embeddingsData) throw new Error(...)` in exploreEmbeddings
exploreThrows(data) == data = Null

\* the part of a handler that is a call of exploreEmbeddings()
exploreEmbeddings(text) ==
  /\ exploreStarts(text) => mayStart(runs)
  /\ exploreBtnDisabled' = exploreBtnAfterStart(text, exploreBtnDisabled)
  /\ runs' = runsAfterExploreStart(text, runs)

\* 'click' on #exploreEmbeddingsBtn; a disabled button dispatches no click
ClickExplore ==
  /\ ~exploreBtnDisabled
  /\ exploreEmbeddings(embeddingsInputText)
  /\ UNCHANGED <<typingTimers, autoPlayTimers, currentModel, tokenizers,
                 tokenizationResult, embeddingsData, currentStep,
                 prevBtnDisabled, nextBtnDisabled, autoPlayInterval, inputText,
                 embeddingsInputText, analyzeBtnDisabled, errorMessageShown,
                 embeddingsErrorShown, pipelineShown, loaded, tokVars>>

\* selectEmbeddingsModel(modelId), a click in #embeddingsModelSelector, which
\* lists the three loaded models
selectEmbeddingsModel(modelId) ==
  /\ currentModel' = modelId
  /\ exploreEmbeddings(embeddingsInputText)
  /\ UNCHANGED <<typingTimers, autoPlayTimers, tokenizers, tokenizationResult,
                 embeddingsData, currentStep, prevBtnDisabled, nextBtnDisabled,
                 autoPlayInterval, inputText, embeddingsInputText,
                 analyzeBtnDisabled, errorMessageShown, embeddingsErrorShown,
                 pipelineShown, loaded, tokVars>>

\* 'input' on #embeddings-input-text: clearTimeout, then setTimeout
EmbeddingsInput(text) ==
  /\ embeddingsInputText' = text
  /\ typingTimers' = clearTimeout(typingTimers) + 1
  /\ UNCHANGED <<runs, autoPlayTimers, currentModel, tokenizers,
                 tokenizationResult, embeddingsData, currentStep,
                 prevBtnDisabled, nextBtnDisabled, autoPlayInterval, inputText,
                 analyzeBtnDisabled, exploreBtnDisabled, errorMessageShown,
                 embeddingsErrorShown, pipelineShown, loaded, tokVars>>

\* the typing timer expires: `if (inputText.value.trim()) exploreEmbeddings()`
TypingTimerFires ==
  /\ typingTimers > 0
  /\ typingTimers' = typingTimers - 1
  /\ IF trim(embeddingsInputText) # <<>>
     THEN exploreEmbeddings(embeddingsInputText)
     ELSE UNCHANGED <<exploreBtnDisabled, runs>>
  /\ UNCHANGED <<autoPlayTimers, currentModel, tokenizers, tokenizationResult,
                 embeddingsData, currentStep, prevBtnDisabled, nextBtnDisabled,
                 autoPlayInterval, inputText, embeddingsInputText,
                 analyzeBtnDisabled, errorMessageShown, embeddingsErrorShown,
                 pipelineShown, loaded, tokVars>>

\* an exploreEmbeddings whose button is restored at the end of the try block
\* instead of in a finally block
ExploreCompletesWithoutFinally(i) ==
  /\ i \in 1..Len(runs) /\ runs[i].kind = "explore" /\ canComplete(runs, i)
  /\ \E draws \in drawsFor(runs[i].text) :
       embeddingsData' =
         generateEmbeddings(embeddingsData, runs[i].text, currentModel, tokenizers, draws)
  /\ IF exploreThrows(embeddingsData')
     THEN /\ embeddingsErrorShown' = TRUE
          /\ UNCHANGED <<pipelineShown, currentStep, prevBtnDisabled,
                         nextBtnDisabled, exploreBtnDisabled>>
     ELSE /\ pipelineShown' = TRUE
          /\ navBecomes(goToStep(navNow, "tokens"))
          /\ exploreBtnDisabled' = FALSE
          /\ UNCHANGED embeddingsErrorShown
  /\ runs' = removeAt(runs, i)
  /\ UNCHANGED <<typingTimers, autoPlayTimers, currentModel, tokenizers,
                 tokenizationResult, autoPlayInterval, inputText,
                 embeddingsInputText, analyzeBtnDisabled, errorMessageShown,
                 loaded, tokVars>>

\* exploreEmbeddings after its await: the run's timer expires
ExploreCompletes(i) ==
  /\ i \in 1..Len(runs) /\ runs[i].kind = "explore" /\ canComplete(runs, i)
  /\ \E draws \in drawsFor(runs[i].text) :
       embeddingsData' =
         generateEmbeddings(embeddingsData, runs[i].text, currentModel, tokenizers, draws)
  /\ IF exploreThrows(embeddingsData')
     THEN \* catch: showEmbeddingsError
          /\ embeddingsErrorShown' = TRUE
          /\ UNCHANGED <<pipelineShown, currentStep, prevBtnDisabled, nextBtnDisabled>>
     ELSE /\ pipelineShown' = TRUE
          /\ navBecomes(goToStep(navNow, "tokens"))
          /\ UNCHANGED embeddingsErrorShown
  /\ exploreBtnDisabled' = FALSE
  /\ runs' = removeAt(runs, i)
  /\ UNCHANGED <<typingTimers, autoPlayTimers, currentModel, tokenizers,
                 tokenizationResult, autoPlayInterval, inputText,
                 embeddingsInputText, analyzeBtnDisabled, errorMessageShown,
                 loaded, tokVars>>

\* the pipeline's controls (.step, #prevStep, #nextStep, #autoPlay) can be
\* operated once #embeddingsPipeline is displayed
pipelineControlsUsable == pipelineShown

\* what the data-step attribute of a clicked .step element may hold
StepNames == {"tokens", "dictionary", "positional", "final", "attention"}

\* a navigation that discards the embeddings it shows
navFrameDroppingData ==
  /\ embeddingsData' = Null
  /\ UNCHANGED <<runs, typingTimers, currentModel, tokenizers, tokenizationResult,
                 inputText, embeddingsInputText, analyzeBtnDisabled,
                 exploreBtnDisabled, errorMessageShown, embeddingsErrorShown,
                 pipelineShown, loaded, tokVars>>

navFrame ==
  UNCHANGED <<runs, typingTimers, currentModel, tokenizers, tokenizationResult,
              embeddingsData, inputText, embeddingsInputText, analyzeBtnDisabled,
              exploreBtnDisabled, errorMessageShown, embeddingsErrorShown,
              pipelineShown, loaded, tokVars>>

\* 'click' on a .step element
ClickStep(stepName) ==
  /\ pipelineControlsUsable
  /\ navBecomes(goToStep(navNow, stepName))
  /\ UNCHANGED <<autoPlayInterval, autoPlayTimers>>
  /\ navFrame

\* 'click' on #prevStep; a disabled button dispatches no click
ClickPrevious ==
  /\ pipelineControlsUsable
  /\ ~prevBtnDisabled
  /\ navBecomes(previousStep(navNow))
  /\ UNCHANGED <<autoPlayInterval, autoPlayTimers>>
  /\ navFrame

\* 'click' on #nextStep; a disabled button dispatches no click
ClickNext ==
  /\ pipelineControlsUsable
  /\ ~nextBtnDisabled
  /\ navBecomes(nextStep(navNow))
  /\ UNCHANGED <<autoPlayInterval, autoPlayTimers>>
  /\ navFrame

\* a toggleAutoPlay that starts an interval whether or not one is active
toggleAutoPlayAlwaysStarts ==
  /\ pipelineControlsUsable
  /\ autoPlayTimers' = autoPlayTimers + 1
  /\ autoPlayInterval' = TRUE
  /\ UNCHANGED <<currentStep, prevBtnDisabled, nextBtnDisabled>>
  /\ navFrame

\* toggleAutoPlay(), a click on #autoPlay
toggleAutoPlay ==
  /\ pipelineControlsUsable
  /\ IF autoPlayInterval
     THEN /\ autoPlayTimers' = clearInterval(autoPlayTimers)
          /\ autoPlayInterval' = FALSE
     ELSE /\ autoPlayTimers' = autoPlayTimers + 1
          /\ autoPlayInterval' = TRUE
  /\ UNCHANGED <<currentStep, prevBtnDisabled, nextBtnDisabled>>
  /\ navFrame

\* the interval of auto-play expires; it stays active
AutoPlayTick ==
  /\ autoPlayTimers > 0
  /\ navBecomes(autoPlayStep(navNow))
  /\ UNCHANGED <<autoPlayInterval, autoPlayTimers>>
  /\ navFrame

\* resetEmbeddingsPipeline()
resetEmbeddingsPipeline ==
  /\ currentStep' = 0
  /\ UNCHANGED <<prevBtnDisabled, nextBtnDisabled>>
  /\ IF autoPlayInterval
     THEN /\ autoPlayTimers' = clearInterval(autoPlayTimers)
          /\ autoPlayInterval' = FALSE
     ELSE UNCHANGED <<autoPlayTimers, autoPlayInterval>>

\* switchPage(page), a click on a .nav-btn
Pages == {"tokenization", "embeddings"}

switchPage(page) ==
  /\ IF page = "embeddings"
     THEN resetEmbeddingsPipeline
     ELSE UNCHANGED <<currentStep, prevBtnDisabled, nextBtnDisabled,
                      autoPlayTimers, autoPlayInterval>>
  /\ navFrame

LoadReturns == \E outcome \in FetchOutcomes : LoadTokenizerReturns(outcome)

\* no tokenizer call is observed on its own in the explorer specification
TokIdle == TokenizerIdle /\ SplitIdle /\ EmbIdle /\ ControlsIdle /\ VisualizerIdle /\ RequestsIdle

\* The user works with one text area at a time: text is typed into
\* #input-text only while the embeddings page is untouched, and into
\* #embeddings-input-text only while the tokenization page is untouched.
tokenizationUntouched ==
  /\ inputText = <<>>
  /\ tokenizationResult = Null
  /\ ~analyzeBtnDisabled
  /\ \A k \in 1..Len(runs) : runs[k].kind # "analyze"

embeddingsUntouched ==
  /\ embeddingsInputText = <<>>
  /\ embeddingsData = Null
  /\ ~exploreBtnDisabled /\ ~embeddingsErrorShown /\ ~pipelineShown
  /\ typingTimers = 0 /\ autoPlayTimers = 0
  /\ \A k \in 1..Len(runs) : runs[k].kind # "explore"

Next ==
  \/ LoadReturns
  \/ embeddingsUntouched /\ \E text \in UiTexts : InputText(text)
  \/ ClickAnalyze
  \/ \E param \in Parameters : ChangeParameter(param)
  \/ \E modelId \in Models : selectModel(modelId)
  \/ \E i \in 1..Len(runs) : AnalyzeCompletes(i)
  \/ ClickExplore
  \/ \E modelId \in {LoadOrder[k] : k \in 1..Len(LoadOrder)} : selectEmbeddingsModel(modelId)
  \/ tokenizationUntouched /\ \E text \in EmbeddingsTexts : EmbeddingsInput(text)
  \/ TypingTimerFires
  \/ \E i \in 1..Len(runs) : ExploreCompletes(i)
  \/ \E stepName \in StepNames : ClickStep(stepName)
  \/ ClickPrevious
  \/ ClickNext
  \/ toggleAutoPlay
  \/ AutoPlayTick
  \/ \E page \in Pages : switchPage(page)

Init == ExplorerInit /\ (inputText = <<>> \/ embeddingsInputText = <<>>) /\ TokIdle

Spec == Init /\ [][Next]_vars

\* a step in which the oldest run, an analyzeTokenization run, completes
analyzeRunEnds ==
  /\ runs # <<>> /\ Head(runs).kind = "analyze"
  /\ runs' = Tail(runs)

\* a step in which the oldest run, an exploreEmbeddings run, completes
exploreRunEnds ==
  /\ runs # <<>> /\ Head(runs).kind = "explore"
  /\ runs' = Tail(runs)

\* The timer of a pending run expires and a pending fetch returns. The steps
\* of Next that take the oldest run out of runs are those of AnalyzeCompletes
\* and ExploreCompletes, one of which is enabled exactly when runs is not
\* empty, so their fairness is stated on the change of runs.
FairSpec ==
  /\ Spec
  /\ WF_runs(analyzeRunEnds \/ exploreRunEnds)
  /\ WF_vars(LoadReturns)

\* ------------------------------------------- the tokenization parameters
\* the values the four parameters take: two checkbox states, and for
\* #maxLength its minimum and its default
ControlValues ==
  [addSpecialTokens |-> BOOLEAN, padding |-> BOOLEAN, truncation |-> BOOLEAN,
   maxLength |-> {1, 512}]

\* the texts analyzed while the parameters are operated
ControlsTexts == {ILoveYou, <<"a", "a", "a", "a">>}

\* a tokenization that leaves out the special tokens when #addSpecialTokens
\* is not checked and truncates to #maxLength tokens when #truncation is
tokensHonouringControls(params, text, model, tk, draws) ==
  LET tokens == analyzedResult(text, model, tk, draws).tokens
      kept == IF params.addSpecialTokens THEN tokens
              ELSE SelectSeq(tokens, LAMBDA t : t.type # "special")
  IN  IF params.truncation /\ Len(kept) > params.maxLength
      THEN SubSeq(kept, 1, params.maxLength)
      ELSE kept

\* the tokens analyzeTokenization() stores when the parameters have the
\* values params: it reads #input-text and this.currentModel, and none of the
\* parameters
tokensUnder(params, text, model, tk, draws) == analyzedResult(text, model, tk, draws).tokens

\* the explorer with its three tokenizers registered and a model selected,
\* a text in #input-text and the parameters at their defaults
ControlsInit ==
  /\ currentModel \in Models
  /\ tokenizers = {LoadOrder[k] : k \in 1..Len(LoadOrder)}
  /\ tokenizationResult = Null
  /\ embeddingsData = Null
  /\ currentStep = 0
  /\ autoPlayInterval = FALSE
  /\ inputText = <<>>
  /\ embeddingsInputText = <<>>
  /\ analyzeBtnDisabled = FALSE
  /\ exploreBtnDisabled = FALSE
  /\ errorMessageShown = FALSE
  /\ embeddingsErrorShown = FALSE
  /\ pipelineShown = FALSE
  /\ prevBtnDisabled = FALSE
  /\ nextBtnDisabled = FALSE
  /\ loaded = Len(LoadOrder)
  /\ runs = <<>>
  /\ typingTimers = 0
  /\ autoPlayTimers = 0
  /\ controls = DefaultControls
  /\ tokText \in ControlsTexts
  /\ tokDraws \in [1..ILoveYouDraws -> Randoms]
  /\ tokCall = NoCall
  /\ tokTokens = <<>>
  /\ SplitIdle /\ EmbIdle /\ VisualizerIdle /\ RequestsIdle

\* a run of analyzeTokenization() on the text, from its start to its end
controlsRun ==
  /\ tokCall' = [fn |-> "analyzeTokenization", arg |-> currentModel]
  /\ tokTokens' = tokensUnder(controls', tokText, currentModel, tokenizers, tokDraws)

\* 'click' on #analyzeBtn
ControlsAnalyze ==
  /\ UNCHANGED <<controls, tokText, tokDraws, splitVars, embVars, visualizerVars, requests,
                 explorerVars>>
  /\ controlsRun

\* 'change' on #addSpecialTokens, #padding, #truncation and 'input' on
\* #maxLength: the element has its new value and the listener calls
\* analyzeTokenization()
ParameterChanged(name, value) ==
  /\ controls[name] # value
  /\ controls' = [controls EXCEPT ![name] = value]
  /\ controlsRun
  /\ UNCHANGED <<tokText, tokDraws, splitVars, embVars, visualizerVars, requests, explorerVars>>

\* setAddSpecialTokens, setPadding, setTruncation, setMaxLength of
\* TokenizationControls: the state of the component alone
setControl(name, value) ==
  /\ controls[name] # value
  /\ controls' = [controls EXCEPT ![name] = value]
  /\ UNCHANGED <<tokText, tokDraws, tokCall, tokTokens, splitVars, embVars,
                 visualizerVars, requests, explorerVars>>

ControlsNext ==
  \/ ControlsAnalyze
  \/ \E name \in DOMAIN ControlValues : \E value \in ControlValues[name] :
       ParameterChanged(name, value)
  \/ \E name \in DOMAIN ControlValues : \E value \in ControlValues[name] :
       setControl(name, value)

ControlsSpec == ControlsInit /\ [][ControlsNext]_vars

\* ------------------------------------- the token visualizer of script.js
\* the texts typed into #input-text while tokens are operated: texts of no,
\* one and two words
VisualizerTexts == { <<>>, <<"a">>, <<"a", " ", "A">> }

\* this.selectedToken = index
selected(index) == [index |-> index]

\* what reading a property of undefined throws
TypeError == [threw |-> "TypeError"]

\* renderTokenDetails(result): the token whose details the panel shows;
\* result.tokens[this.selectedToken] is read without a test, and token.text
\* throws when no token has that index
renderTokenDetails(result, sel) ==
  IF sel.index + 1 \in 1..Len(result.tokens)
  THEN result.tokens[sel.index + 1]
  ELSE TypeError

\* displayTokenVisualizer(): what it assigns to #tokenVisualizer, one element
\* for each token and the details panel when a token is selected, or the
\* exception that leaves the assignment undone
displayTokenVisualizer(result, sel) ==
  LET details == IF sel # Null THEN renderTokenDetails(result, sel) ELSE Null
  IN  IF details = TypeError
      THEN TypeError
      ELSE [elements |-> Len(result.tokens), details |-> details]

\* #tokenVisualizer after a call of displayTokenVisualizer()
visualizerAfter(result, sel, dom) ==
  IF displayTokenVisualizer(result, sel) = TypeError
  THEN dom
  ELSE displayTokenVisualizer(result, sel)

\* the indexes of the token elements setupTokenInteractions() has given
\* listeners
tokenElements == 0..(tokenVisualizer.elements - 1)

\* a listener of a token element stores sel and calls
\* displayTokenVisualizer()
tokenListener(type, index, sel) ==
  /\ index \in tokenElements
  /\ tokenEvent' = [type |-> type, index |-> index]
  /\ selectedToken' = sel
  /\ tokenVisualizer' = visualizerAfter(tokenizationResult, sel, tokenVisualizer)
  /\ renderThrew' = (displayTokenVisualizer(tokenizationResult, sel) = TypeError)
  /\ UNCHANGED <<explorerVars, tokText, tokDraws, tokCall, tokTokens, splitVars,
                 embVars, controls, requests>>

\* selectToken(index)
selectToken(index) == IF selectedToken = selected(index) THEN Null ELSE selected(index)

\* highlightToken(index)
highlightToken(index) == selected(index)

\* unhighlightToken()
unhighlightToken == Null

\* 'click' on a token element
TokenClick(index) == tokenListener("click", index, selectToken(index))

\* 'mouseenter' on a token element
TokenMouseEnter(index) == tokenListener("mouseenter", index, highlightToken(index))

\* 'mouseleave' on a token element
TokenMouseLeave(index) == tokenListener("mouseleave", index, unhighlightToken)

\* analyzeTokenization of script.js after its await: mockTokenize, then
\* displayResults, whose displayTokenVisualizer() may throw into the catch
\* block; this.selectedToken is left as it is
VisualizerAnalyzeCompletes(i) ==
  /\ i \in 1..Len(runs) /\ runs[i].kind = "analyze" /\ canComplete(runs, i)
  /\ tokenizationResult' = mockTokenize(runs[i].text, currentModel)
  /\ tokenVisualizer' = visualizerAfter(tokenizationResult', selectedToken, tokenVisualizer)
  /\ renderThrew' = (displayTokenVisualizer(tokenizationResult', selectedToken) = TypeError)
  /\ errorMessageShown' = renderThrew'
  /\ analyzeBtnDisabled' = FALSE
  /\ runs' = removeAt(runs, i)
  /\ UNCHANGED <<typingTimers, autoPlayTimers, currentModel, tokenizers,
                 embeddingsData, currentStep, prevBtnDisabled, nextBtnDisabled,
                 autoPlayInterval, inputText, embeddingsInputText,
                 exploreBtnDisabled, embeddingsErrorShown, pipelineShown, loaded,
                 selectedToken, tokenEvent, tokText, tokDraws, tokCall, tokTokens,
                 splitVars, embVars, controls, requests>>

VisualizerNext ==
  \/ \E text \in VisualizerTexts : InputText(text)
  \/ ClickAnalyze
  \/ \E i \in 1..MaxRuns : VisualizerAnalyzeCompletes(i)
  \/ \E index \in 0..1 : TokenClick(index)
  \/ \E index \in 0..1 : TokenMouseEnter(index)
  \/ \E index \in 0..1 : TokenMouseLeave(index)

VisualizerInit ==
  ExplorerIdle /\ TokenizerIdle /\ SplitIdle /\ EmbIdle /\ ControlsIdle /\ VisualizerIdle /\ RequestsIdle

VisualizerSpec == VisualizerInit /\ [][VisualizerNext]_vars

\* ----------------------------------------- runs and the requests behind
\* what a handler's call of analyzeTokenization() is a request for: the text
\* of #input-text and this.currentModel at the call
requestOf(text, model) == [text |-> text, model |-> model]

requestsAfterStart(text, model, rq) ==
  IF analyzeStarts(text) THEN Append(rq, requestOf(text, model)) ELSE rq

\* the fields and elements no handler of the tokenization page touches
requestFrame ==
  UNCHANGED <<typingTimers, autoPlayTimers, tokenizers, embeddingsData, currentStep,
              prevBtnDisabled, nextBtnDisabled, autoPlayInterval,
              embeddingsInputText, exploreBtnDisabled, embeddingsErrorShown,
              pipelineShown, loaded, tokText, tokDraws, tokCall, tokTokens,
              splitVars, embVars, controls, visualizerVars>>

\* 'input' on #input-text
RequestByInput(text) ==
  /\ inputText' = text
  /\ analyzeTokenization(text)
  /\ requests' = requestsAfterStart(text, currentModel, requests)
  /\ UNCHANGED <<currentModel, tokenizationResult, errorMessageShown>>
  /\ requestFrame

\* selectModel(modelId), a click in #modelSelector
RequestBySelectModel(modelId) ==
  /\ currentModel' = modelId
  /\ analyzeTokenization(inputText)
  /\ requests' = requestsAfterStart(inputText, modelId, requests)
  /\ UNCHANGED <<inputText, tokenizationResult, errorMessageShown>>
  /\ requestFrame

\* analyzeTokenization after its await: this.tokenizers[this.currentModel]
\* and this.currentModel are read now, inputText was read before the await
RequestCompletes ==
  /\ runs # <<>> /\ Head(runs).kind = "analyze"
  /\ \E draws \in drawsFor(Head(runs).text) :
       tokenizationResult' =
         analyzedResult(Head(runs).text, currentModel, tokenizers, draws)
  /\ errorMessageShown' = FALSE
  /\ analyzeBtnDisabled' = FALSE
  /\ runs' = Tail(runs)
  /\ requests' = Tail(requests)
  /\ UNCHANGED <<currentModel, inputText>>
  /\ requestFrame

\* the models of .model-option elements that have a tokenizer
RequestModels == {LoadOrder[k] : k \in 1..Len(LoadOrder)}

RequestNext ==
  \/ \E text \in UiTexts : RequestByInput(text)
  \/ \E modelId \in RequestModels : RequestBySelectModel(modelId)
  \/ RequestCompletes

\* the explorer once initializeTokenizers has registered its three
\* tokenizers, with #input-text empty
RequestInit ==
  /\ currentModel = "gpt2"
  /\ tokenizers = RequestModels
  /\ tokenizationResult = Null
  /\ embeddingsData = Null
  /\ currentStep = 0
  /\ autoPlayInterval = FALSE
  /\ inputText = <<>>
  /\ embeddingsInputText = <<>>
  /\ analyzeBtnDisabled = FALSE
  /\ exploreBtnDisabled = FALSE
  /\ errorMessageShown = FALSE
  /\ embeddingsErrorShown = FALSE
  /\ pipelineShown = FALSE
  /\ prevBtnDisabled = FALSE
  /\ nextBtnDisabled = FALSE
  /\ loaded = Len(LoadOrder)
  /\ runs = <<>>
  /\ typingTimers = 0
  /\ autoPlayTimers = 0
  /\ TokenizerIdle /\ SplitIdle /\ EmbIdle /\ ControlsIdle /\ VisualizerIdle
  /\ RequestsIdle

RequestSpec == RequestInit /\ [][RequestNext]_vars

\* ------------------------------------------------------------- properties
\* C1: every exploreEmbeddings run that completes while no tokenizer is
\* registered for currentModel ends with the error of showEmbeddingsError
\* displayed and changes neither the display of the pipeline nor the stored
\* EmbeddingsData, whatever earlier runs left
C1_RunWithoutTokenizerReportsError ==
  [][(exploreRunEnds /\ currentModel \notin tokenizers)
       => /\ embeddingsErrorShown'
          /\ pipelineShown' = pipelineShown]_vars

C3_StagesOrdered ==
  /\ [](/\ currentStep \in 0..3
        /\ nextStep(navNow).currentStep =
             IF currentStep = 3 THEN 3 ELSE currentStep + 1
        /\ previousStep(navNow).currentStep =
             IF currentStep = 0 THEN 0 ELSE currentStep - 1
        /\ goToStep(navNow, "tokens").currentStep = 0
        /\ goToStep(navNow, "dictionary").currentStep = 1
        /\ goToStep(navNow, "positional").currentStep = 2
        /\ goToStep(navNow, "final").currentStep = 3
        /\ goToStep(navNow, "attention") = navNow)
  /\ [][/\ ClickNext => currentStep' = currentStep + 1
        /\ ClickPrevious =>
             currentStep' = IF currentStep = 0 THEN 0 ELSE currentStep - 1]_vars

\* the last stage has been reached by navigation
C3_Witness == pipelineShown /\ currentStep = 3

\* C4: while an analyzeTokenization run is pending analyzeBtn is disabled,
\* and while an exploreEmbeddings run is pending exploreEmbeddingsBtn is
\* disabled
C4_TriggerDisabledWhilePending ==
  /\ (\E k \in 1..Len(runs) : runs[k].kind = "analyze") => analyzeBtnDisabled
  /\ (\E k \in 1..Len(runs) : runs[k].kind = "explore") => exploreBtnDisabled

\* C5: a completing analyzeTokenization run stores the result for its own
\* text under the model current at that moment, a completing
\* exploreEmbeddings run with a tokenizer stores the tokens of its own text,
\* and no other step changes tokenizationResult or embeddingsData
C5_LastWriteWins ==
  [][/\ analyzeRunEnds =>
          /\ tokenizationResult' # Null
          /\ tokenizationResult'.originalText = Head(runs).text
          /\ tokenizationResult'.model = currentModel
          /\ tokenizationResult'.totalTokens = Len(tokenizationResult'.tokens)
     /\ (exploreRunEnds /\ currentModel \in tokenizers) =>
          /\ embeddingsData' # Null
          /\ \E draws \in drawsFor(Head(runs).text) :
               embeddingsData'.tokens =
                 simulateTokenization(Head(runs).text, currentModel, draws)
     /\ ~analyzeRunEnds => tokenizationResult' = tokenizationResult
     /\ ~exploreRunEnds => embeddingsData' = embeddingsData]_vars

\* a run completed and stored its result while a run for another text,
\* started before that completion, is still pending
C5_Witness ==
  /\ tokenizationResult # Null
  /\ runs # <<>> /\ Head(runs).kind = "analyze"
  /\ ~analyzeBtnDisabled
  /\ tokenizationResult.originalText # Head(runs).text


\* the run named id is pending
pending(id) == \E k \in 1..Len(runs) : runs[k].id = id

analyzeTokenizationCalled ==
  \/ loaded = Len(LoadOrder) - 1 /\ loaded' = Len(LoadOrder)
  \/ \E text \in UiTexts : InputText(text)
  \/ ClickAnalyze
  \/ \E param \in Parameters : ChangeParameter(param)
  \/ \E modelId \in Models : selectModel(modelId)

\* a step of a handler that calls exploreEmbeddings(), or of the typing timer
exploreEmbeddingsCalled ==
  \/ ClickExplore
  \/ \E modelId \in {LoadOrder[k] : k \in 1..Len(LoadOrder)} :
       selectEmbeddingsModel(modelId)
  \/ TypingTimerFires

\* C7: a call of analyzeTokenization on blank text of #input-text, and a call
\* of exploreEmbeddings or an expiry of the typing timer on blank text of
\* #embeddings-input-text, start no run and leave tokenizationResult,
\* embeddingsData, currentStep, both buttons and both error displays as
\* they were
C7_BlankInputIsNoOp ==
  [][((analyzeTokenizationCalled /\ isBlank(inputText'))
        \/ (exploreEmbeddingsCalled /\ isBlank(embeddingsInputText)))
       => UNCHANGED <<runs, tokenizationResult, embeddingsData, currentStep,
                      analyzeBtnDisabled, exploreBtnDisabled, errorMessageShown,
                      embeddingsErrorShown, pipelineShown>>]_vars

\* initializeTokenizers made its analyzeTokenization() call on a
\* whitespace-only text, and nothing started
C7_Witness ==
  /\ loaded = Len(LoadOrder) /\ inputText = <<" ">>
  /\ runs = <<>> /\ tokenizationResult = Null /\ ~analyzeBtnDisabled

\* C8: after each loadTokenizer(m) returned a tokenizer is registered for m,
\* the three fetches return, after which exactly gpt2, bert-base-uncased and
\* roberta-base have tokenizers, and the return of the third is the initial
\* analyzeTokenization() call, which starts a run on non-blank text
C8_FetchFailureIsNotFatal ==
  /\ [](\A k \in 1..loaded : LoadOrder[k] \in tokenizers)
  /\ [](loaded = 3 => tokenizers = {"gpt2", "bert-base-uncased", "roberta-base"})
  /\ <>[](loaded = 3)
  /\ [][(loaded = 2 /\ loaded' = 3 /\ ~isBlank(inputText))
          => /\ analyzeBtnDisabled'
             /\ Len(runs') = Len(runs) + 1
             /\ runs'[Len(runs')].kind = "analyze"
             /\ runs'[Len(runs')].text = inputText]_vars

\* the three tokenizers are registered and the initial run is pending
C8_Witness ==
  /\ loaded = 3 /\ Cardinality(tokenizers) = 3
  /\ runs # <<>> /\ runs[Len(runs)].kind = "analyze"

\* C9: no token made from a word has the empty text
C9_NoEmptyWordToken ==
  \A k \in 1..Len(tokTokens) :
    tokTokens[k].type # "special" => tokTokens[k].text # <<>>

\* a call of a tokenizer of the bert family
bertCall ==
  \/ tokCall.fn = "simulateTokenization"
       /\ tokCall.arg \in {"bert-base-uncased", "roberta-base"}
  \/ tokCall.fn = "TokenizationService.simulateTokenization" /\ tokCall.arg = "bert"

\* C10: the tokens of the bert family start with [CLS] (start 0, end 0,
\* length 5, special) and end with [SEP] (start and end the length of the
\* text, length 5, special), and no token between them is special, so they
\* are two more than the tokens made from words
C10_BertWrapsWithClsAndSep ==
  bertCall =>
    LET n == Len(tokTokens)
    IN  /\ n >= 2
        /\ tokTokens[1].text = <<"[", "C", "L", "S", "]">>
        /\ tokTokens[1].start = 0 /\ tokTokens[1].end = 0
        /\ tokTokens[1].length = 5 /\ tokTokens[1].type = "special"
        /\ tokTokens[n].text = <<"[", "S", "E", "P", "]">>
        /\ tokTokens[n].start = Len(tokText) /\ tokTokens[n].end = Len(tokText)
        /\ tokTokens[n].length = 5 /\ tokTokens[n].type = "special"
        /\ Cardinality({k \in 1..n : tokTokens[k].type = "special"}) = 2

\* a bert tokenizer returned words between [CLS] and [SEP]
C10_Witness == bertCall /\ Len(tokTokens) >= 4



\* ------------------------------------------------------------------- C11
\* the family a tokenizer call belongs to: "gpt", "bert", or "none" for
\* mockTokenize and for a model type the service does not know
familyOfCall ==
  IF tokCall.fn = "simulateTokenization"
  THEN (IF tokCall.arg \in {"gpt2", "gpt2-medium", "gpt2-large"} THEN "gpt" ELSE "bert")
  ELSE IF tokCall.fn = "TokenizationService.simulateTokenization"
          /\ tokCall.arg \in {"gpt", "bert"}
  THEN tokCall.arg
  ELSE "none"

\* the tokens of the call that were made from a word
wordTokens == SelectSeq(tokTokens, LAMBDA t : t.type # "special")

\* the text of the call is one word
oneWord == \A k \in 1..Len(tokText) : tokText[k] \notin Whitespace

\* C11: a word no longer than the short threshold of its family (2 for gpt,
\* 3 for bert) is one token that is not a subword, and a word longer than the
\* medium threshold (4 for gpt, 5 for bert) is split, whatever is drawn
C11_SplitDecisionByLengthAndFamily ==
  (familyOfCall # "none" /\ oneWord) =>
    LET short == IF familyOfCall = "gpt" THEN 2 ELSE 3
        medium == IF familyOfCall = "gpt" THEN 4 ELSE 5
    IN  /\ Len(tokText) <= short =>
             Len(wordTokens) = 1 /\ ~wordTokens[1].subword
        /\ Len(tokText) > medium =>
             \A k \in 1..Len(wordTokens) : wordTokens[k].subword


\* ------------------------------------------------------------- C12, C13
\* a splitter has returned
splitReturned == splitCall # NoCall

\* C12: a splitter returns at least one piece and no empty piece
C12_PiecesNonEmpty ==
  splitReturned =>
    /\ Len(subwords) >= 1
    /\ \A k \in 1..Len(subwords) : Len(subwords[k]) > 0

RECURSIVE sumOfLengths(_)
sumOfLengths(pieces) ==
  IF pieces = <<>> THEN 0 ELSE Len(Head(pieces)) + sumOfLengths(Tail(pieces))

\* C13: the lengths of the pieces a splitter returns add up to the length of
\* the word
C13_PiecesCoverWord == splitReturned => sumOfLengths(subwords) = Len(splitArg)


\* ------------------------------------------------------------------- C14
\* the texts of the tokens of the call, in order
tokenTexts == [k \in 1..Len(tokTokens) |-> tokTokens[k].text]

ClsText == <<"[", "C", "L", "S", "]">>
SepText == <<"[", "S", "E", "P", "]">>

\* "I love you" with no word split, between [CLS] and [SEP]
ILoveYouWhole ==
  << ClsText, <<"I">>, <<"l", "o", "v", "e">>, <<"y", "o", "u">>, SepText >>

\* "I love you" with love split into lo and ##ve
ILoveYouSplit ==
  << ClsText, <<"I">>, <<"l", "o">>, <<"#", "#", "v", "e">>, <<"y", "o", "u">>, SepText >>

\* C14 as stated: "I love you" tokenized by the bert family is the five
\* tokens [CLS], I, love, you, [SEP], and no word is split, whatever is drawn
C14_ILoveYouIsFiveTokens ==
  (tokText = ILoveYou /\ tokCall.fn = "simulateTokenization" /\ bertCall) =>
    /\ tokenTexts = ILoveYouWhole
    /\ \A k \in 1..Len(tokTokens) : ~tokTokens[k].subword

\* C14 amended: "I love you" tokenized by the bert family is [CLS], I, love,
\* you, [SEP] when the draw made for love is at most 0.6 and [CLS], I, lo,
\* ##ve, you, [SEP] when it is above; I and you are one token each
C14_ILoveYouSplitsOnlyLove ==
  (tokText = ILoveYou /\ bertCall) =>
    /\ tokenTexts = IF tokDraws[1] > BertThreshold THEN ILoveYouSplit ELSE ILoveYouWhole
    /\ tokCall.fn = "simulateTokenization" =>
         \A k \in 1..Len(tokTokens) :
           tokTokens[k].subword <=> tokTokens[k].parentWord = << <<"l", "o", "v", "e">> >>

\* simulateBERTTokenization has split love of "I love you"
C14_Witness ==
  /\ tokText = ILoveYou /\ tokCall.fn = "simulateTokenization" /\ bertCall
  /\ Len(tokTokens) = 6


\* ------------------------------------------------------------------- C15
\* C15: in the tokens one call returns, the token emitted i-th, counting from
\* 0, has the id i, so the ids are unique and strictly increasing
C15_IdsCountEmission ==
  /\ \A k \in 1..Len(tokTokens) : tokTokens[k].id = k - 1
  /\ \A j, k \in 1..Len(tokTokens) : j < k => tokTokens[j].id < tokTokens[k].id

\* a call has returned special tokens and the pieces of a split word
C15_Witness ==
  /\ \E k \in 1..Len(tokTokens) : tokTokens[k].type = "special"
  /\ \E k \in 2..Len(tokTokens) : tokTokens[k].subword /\ tokTokens[k - 1].subword


\* ------------------------------------------------------------------- C16
\* the pieces the splitter of the call returns for a word
piecesOfCall(word) ==
  IF tokCall.fn = "simulateTokenization"
  THEN (IF familyOfCall = "gpt" THEN splitIntoGPTSubwords(word)
        ELSE splitIntoBERTSubwords(word))
  ELSE splitWord(word, tokCall.arg)

\* how many tokens right before the k-th are subword tokens of the same word
RECURSIVE piecesBefore(_)
piecesBefore(k) ==
  IF k > 1 /\ tokTokens[k - 1].subword
     /\ tokTokens[k - 1].parentWord = tokTokens[k].parentWord
  THEN 1 + piecesBefore(k - 1)
  ELSE 0

\* C16: a token with subword=true has the type subword and a word of the
\* text as parentWord; it is the next piece of that word, and after it comes
\* the following piece; a piece after the first of a bert tokenizer is shown
\* as '##' + piece with length = piece length + 2, any other piece as it is
\* with its own length; and the length of every token is the length of its
\* text
C16_SubwordTokensCarryPieces ==
  /\ \A k \in 1..Len(tokTokens) : tokTokens[k].length = Len(tokTokens[k].text)
  /\ \A k \in 1..Len(tokTokens) :
       LET t == tokTokens[k]
       IN  /\ t.subword <=> t.type = "subword"
           /\ t.subword <=> t.parentWord # NoParent
           /\ t.subword =>
                LET word == t.parentWord[1]
                    pieces == piecesOfCall(word)
                    j == (piecesBefore(k) % Len(pieces)) + 1
                    marked == familyOfCall = "bert" /\ j > 1
                IN  /\ \E w \in 1..Len(splitWhitespace(tokText)) :
                         splitWhitespace(tokText)[w] = word
                    /\ t.text = (IF marked THEN <<"#", "#">> ELSE <<>>) \o pieces[j]
                    /\ t.length = Len(pieces[j]) + (IF marked THEN 2 ELSE 0)
                    /\ j < Len(pieces) =>
                         /\ k < Len(tokTokens)
                         /\ tokTokens[k + 1].subword
                         /\ tokTokens[k + 1].parentWord = t.parentWord

\* a bert tokenizer has emitted a piece with the '##' prefix
C16_Witness ==
  /\ familyOfCall = "bert"
  /\ \E k \in 1..Len(tokTokens) :
       /\ tokTokens[k].subword
       /\ Len(tokTokens[k].text) > 2
       /\ SubSeq(tokTokens[k].text, 1, 2) = <<"#", "#">>


\* ------------------------------------------------------------------- C17
\* the embedding a list holds at a position (from 1), the all-zero vector
\* where the list has no entry
vectorAt(list, p, field) ==
  IF p <= Len(list) THEN list[p][field] ELSE [d \in 1..embeddingDim |-> num(0)]

\* final is, position by position and dimension by dimension, the sum of the
\* dictionary embeddings and the positional encoding
sumLaw(final, dictionaryEmbeddings, positionalEncoding) ==
  \A p \in 1..Len(final) :
    LET dict == vectorAt(dictionaryEmbeddings, p, "embedding")
        posEnc == vectorAt(positionalEncoding, p, "encoding")
    IN  /\ final[p].position = p - 1
        /\ Len(final[p].embedding) = embeddingDim
        /\ \A d \in 1..embeddingDim :
             /\ final[p].embedding[d].c = dict[d].c + posEnc[d].c
             /\ final[p].embedding[d].t = dict[d].t \o posEnc[d].t

\* C17: combineEmbeddings returns sequenceLength vectors, each the sum of the
\* dictionary embedding and the positional encoding of its position, with the
\* all-zero vector for an entry an input does not have; the three lists of a
\* produced embeddingsData have one entry per token and obey the same law
C17_CombinedIsSumPerPosition ==
  /\ embCall.fn \in {"combineEmbeddings", "EmbeddingsService.combineEmbeddings"} =>
       /\ Len(embResult) = embArgs.seqLength
       /\ sumLaw(embResult, dictionaryEmbeddingsArg, positionalEncodingArg)
  /\ embCall.fn = "generateEmbeddings" =>
       /\ Len(embResult.dictionaryEmbeddings) = Len(embResult.tokens)
       /\ Len(embResult.positionalEncoding) = Len(embResult.tokens)
       /\ Len(embResult.finalEmbeddings) = Len(embResult.tokens)
       /\ sumLaw(embResult.finalEmbeddings, embResult.dictionaryEmbeddings,
                 embResult.positionalEncoding)

\* combineEmbeddings has returned for a dictionary shorter than the sequence
C17_Witness ==
  /\ embCall.fn = "EmbeddingsService.combineEmbeddings"
  /\ embArgs.dictLength < embArgs.seqLength
  /\ embArgs.posLength >= embArgs.seqLength
  /\ Len(embResult) = embArgs.seqLength


\* ------------------------------------------------------------------- C18
\* a positional encoding has been returned
positionalReturned ==
  embCall.fn \in {"generatePositionalEncoding",
                  "EmbeddingsService.generatePositionalEncoding"}

\* C18: the positional encoding of a sequence length is the same whenever it
\* is computed, the encoding of a shorter sequence is the beginning of it, and
\* at position 0 the even dimensions are 0 and the odd dimensions are 1
C18_PositionalEncodingPrefixStable ==
  positionalReturned =>
    /\ Len(embResult) = embArgs.seqLength
    /\ \A m \in 0..embArgs.seqLength :
         /\ generatePositionalEncoding(m) = SubSeq(embResult, 1, m)
         /\ \A modelType \in {"gpt", "bert"} :
              serviceGeneratePositionalEncoding(m, modelType) = SubSeq(embResult, 1, m)
    /\ embArgs.seqLength >= 1 =>
         /\ embResult[1].position = 0
         /\ Len(embResult[1].encoding) = embeddingDim
         /\ \A d \in 1..embeddingDim :
              embResult[1].encoding[d] = (IF (d - 1) % 2 = 0 THEN num(0) ELSE num(100))

\* the positional encoding of more than one position has been returned
C18_Witness == positionalReturned /\ Len(embResult) > 1


\* ------------------------------------------------------------------- C19
\* C19: the tokens roberta-base returns for a text and its draws are those
\* bert-base-uncased returns for them
C19_RobertaTokenizesAsBert ==
  (tokCall.fn = "simulateTokenization" /\ tokCall.arg = "roberta-base") =>
    tokTokens = simulateTokenization(tokText, "bert-base-uncased", tokDraws)

\* roberta-base has tokenized a text with a word it split
C19_Witness ==
  /\ tokCall.fn = "simulateTokenization" /\ tokCall.arg = "roberta-base"
  /\ \E k \in 1..Len(tokTokens) : tokTokens[k].subword


C21_HoverThenClickSelects ==
  [][\A index \in 0..1 :
       (/\ tokenEvent = [type |-> "mouseenter", index |-> index]
        /\ tokenEvent' = [type |-> "click", index |-> index])
       => /\ selectedToken' = selected(index)
          /\ tokenVisualizer'.details =
               renderTokenDetails(tokenizationResult', selected(index))]_vars

\* C25: no displayTokenVisualizer() reads a token that result.tokens does not
\* hold, and whenever #tokenVisualizer shows the details panel,
\* selectedToken is an index into the tokens of tokenizationResult and the
\* panel shows the token at that index
C25_DetailsOfValidToken ==
  /\ ~renderThrew
  /\ tokenVisualizer.details # Null
       => /\ selectedToken # Null
          /\ selectedToken.index + 1 \in 1..Len(tokenizationResult.tokens)
          /\ tokenVisualizer.details = tokenizationResult.tokens[selectedToken.index + 1]

\* C22: embeddingsData changes only in a step in which an exploreEmbeddings
\* run completes with a tokenizer registered for currentModel, the step of
\* generateEmbeddings's assignment; goToStep, nextStep, previousStep, the
\* ticks of auto-play and resetEmbeddingsPipeline leave it as it is
C22_OnlyGenerateEmbeddingsWritesData ==
  [][embeddingsData' # embeddingsData
       => exploreRunEnds /\ currentModel \in tokenizers]_vars

\* embeddings are stored, the pipeline has been stepped to its third stage
\* and auto-play is running
C22_Witness ==
  /\ embeddingsData # Null
  /\ currentStep = 2
  /\ autoPlayInterval

\* ------------------------------------------------------------------- C23
\* the family a splitter call belongs to: "gpt", "bert", or "none" for a
\* strategy the service does not know
familyOfSplitCall ==
  IF splitCall.fn = "splitIntoGPTSubwords" THEN "gpt"
  ELSE IF splitCall.fn = "splitIntoBERTSubwords" THEN "bert"
  ELSE IF splitCall.fn = "TokenizationService.splitWord" /\ splitCall.arg \in {"gpt", "bert"}
  THEN splitCall.arg
  ELSE "none"

\* C23: a splitter of the gpt or the bert family, called with a hyphen-free
\* word of more than 3 characters, returns [prefix, remainder] for the first
\* prefix of its family's list that leaves more than 2 characters, else
\* [stem, suffix] for the first suffix of its family's list that leaves more
\* than 2 characters, and else one of the splits by length: the gpt family
\* splits on no affix that only the bert lists hold
C23_AffixRulesByFamily ==
  \A family \in {"gpt", "bert"} :
    (/\ splitReturned
     /\ familyOfSplitCall = family
     /\ ~includes(splitArg, "-")
     /\ Len(splitArg) > 3)
    => LET prefixes == IF family = "gpt" THEN gptPrefixes ELSE bertPrefixes
           suffixes == IF family = "gpt" THEN gptSuffixes ELSE bertSuffixes
           byAffix == splitAffix(splitArg, prefixes, suffixes)
       IN  IF byAffix # <<>>
           THEN subwords = byAffix
           ELSE subwords \in {splitDefault(splitArg), splitThirds(splitArg)}

\* ------------------------------------------------------------------- C24
\* C24: a tokenizer of the explorer that splits a one-word text of more than
\* 3 characters with no hyphen and no applicable prefix or suffix of its
\* family (for bert: of at most 6 characters) emits two tokens, the first
\* ceil(length / 2) characters of the word and the rest ('##' before the rest
\* for bert); and a gpt tokenizer always returns for "hello" the two subword
\* tokens "hel" and "lo"
C24_FallbackSplitsInHalves ==
  /\ \A family \in {"gpt", "bert"} :
       (/\ tokCall.fn = "simulateTokenization"
        /\ familyOfCall = family
        /\ oneWord
        /\ Len(tokText) > 3
        /\ ~includes(tokText, "-")
        /\ firstPrefix(tokText, IF family = "gpt" THEN gptPrefixes ELSE bertPrefixes) = 0
        /\ firstSuffix(tokText, IF family = "gpt" THEN gptSuffixes ELSE bertSuffixes) = 0
        /\ family = "bert" => Len(tokText) <= 6
        /\ \E k \in 1..Len(wordTokens) : wordTokens[k].subword)
       => LET mid == (Len(tokText) + 1) \div 2
              marker == IF family = "bert" THEN <<"#", "#">> ELSE <<>>
          IN  [k \in 1..Len(wordTokens) |-> wordTokens[k].text]
                = << SubSeq(tokText, 1, mid),
                     marker \o SubSeq(tokText, mid + 1, Len(tokText)) >>
  /\ (tokCall.fn = "simulateTokenization" /\ familyOfCall = "gpt" /\ tokText = Hello)
       => /\ tokenTexts = << <<"h", "e", "l">>, <<"l", "o">> >>
          /\ \A k \in 1..Len(tokTokens) : tokTokens[k].subword

\* a gpt tokenizer has returned the tokens of "hello"
C24_Witness ==
  /\ tokCall.fn = "simulateTokenization"
  /\ familyOfCall = "gpt"
  /\ tokText = Hello
  /\ Len(tokTokens) = 2

\* ------------------------------------------------------------------- C26
\* C26: at most one typing timer is armed before and after every step; an
\* 'input' that changes #embeddings-input-text leaves exactly one timer
\* armed, its own; and a step in which the typing timer expires starts an
\* exploreEmbeddings run only if the timer was the one armed by the last
\* input and the text of #embeddings-input-text is not blank, and then the
\* run is on that text
C26_AutoExploreDebounced ==
  [][/\ typingTimers <= 1 /\ typingTimers' <= 1
     /\ embeddingsInputText' # embeddingsInputText => typingTimers' = 1
     /\ (typingTimers' < typingTimers /\ Len(runs') > Len(runs))
          => /\ typingTimers = 1
             /\ ~isBlank(embeddingsInputText)
             /\ runs'[Len(runs')].kind = "explore"
             /\ runs'[Len(runs')].text = embeddingsInputText
     /\ (typingTimers' < typingTimers /\ isBlank(embeddingsInputText))
          => UNCHANGED runs]_vars

\* two runs are pending, the second started while #exploreEmbeddingsBtn was
\* disabled; an input has typed over its text since and has armed the timer
C26_Witness ==
  /\ typingTimers = 1
  /\ Len(runs) = 2
  /\ runs[1].kind = "explore" /\ runs[2].kind = "explore"
  /\ runs[2].text # embeddingsInputText

\* ------------------------------------------------------------------- C27
\* C27: at most one interval of auto-play is active, and one is exactly while
\* autoPlayInterval is set; toggleAutoPlay turns a stopped auto-play on and a
\* started one off; a tick goes from each stage to the next and from final
\* to tokens; and switchPage('embeddings') leaves auto-play stopped, no
\* interval active and the stage at tokens
C27_AutoPlayIsOneCyclicStepper ==
  /\ [](/\ autoPlayTimers <= 1
        /\ autoPlayInterval <=> autoPlayTimers = 1)
  /\ [][/\ toggleAutoPlay => autoPlayInterval' = ~autoPlayInterval
        /\ AutoPlayTick => currentStep' = (currentStep + 1) % 4
        /\ switchPage("embeddings")
             => /\ currentStep' = 0
                /\ ~autoPlayInterval'
                /\ autoPlayTimers' = 0]_vars

\* auto-play is running and stands at final, from where a tick wraps
C27_Witness == autoPlayInterval /\ autoPlayTimers = 1 /\ currentStep = 3

\* ------------------------------------------------------------------- C28
\* C28: once the pipeline is shown, #prevStep is disabled exactly when
\* currentStep is tokens and #nextStep is disabled exactly when currentStep
\* is final
C28_NavigationAgreesWithStage ==
  pipelineShown =>
    /\ prevBtnDisabled <=> currentStep = 0
    /\ nextBtnDisabled <=> currentStep = 3

\* ------------------------------------------------------------------- C29
\* the length of the text of the k-th token without the '##' a bert
\* tokenizer puts before a piece after the first
coreLength(k) ==
  IF familyOfCall = "bert" /\ piecesBefore(k) > 0
     /\ startsWith(tokTokens[k].text, <<"#", "#">>)
  THEN Len(tokTokens[k].text) - 2
  ELSE Len(tokTokens[k].text)

\* C29: a token with subword=true has a token with subword=true and the same
\* parentWord right before or right after it, and its text without the '##'
\* prefix is shorter than parentWord
C29_SubwordTokenIsNeverAWholeWord ==
  \A k \in 1..Len(tokTokens) :
    tokTokens[k].subword =>
      /\ \/ /\ k > 1
            /\ tokTokens[k - 1].subword
            /\ tokTokens[k - 1].parentWord = tokTokens[k].parentWord
         \/ /\ k < Len(tokTokens)
            /\ tokTokens[k + 1].subword
            /\ tokTokens[k + 1].parentWord = tokTokens[k].parentWord
      /\ coreLength(k) < Len(tokTokens[k].parentWord[1])

\* ------------------------------------------------------------------- C30
\* C30: the result a completing analyzeTokenization run stores has the text
\* and the model of the request that started the run as originalText and
\* model, and the tokens the tokenizer of that model returns for that text
C30_ResultIsOfItsRequest ==
  [][(analyzeRunEnds /\ requests # <<>>)
       => LET request == Head(requests)
          IN  /\ tokenizationResult'.originalText = request.text
              /\ tokenizationResult'.model = request.model
              /\ \E draws \in drawsFor(request.text) :
                   tokenizationResult'.tokens =
                     simulateTokenization(request.text, request.model, draws)]_vars

============================================================================
